---- MODULE Spec2Model ----
(***************************************************************************)
(* Model of the multiplayer game-session server of RPGChess                *)
(* (src/server/routes.ts, the Socket.IO part of registerRoutes): the room  *)
(* registry gameRooms, the connection registry playerSockets, the event    *)
(* handlers create_room, join_room, make_move, game_end and disconnect,    *)
(* the continuations of their awaited persistence calls, the delayed       *)
(* removals and the periodic sweep.                                        *)
(*                                                                         *)
(* Node runs every handler to its first await without interruption, so a   *)
(* handler is one action up to its first await and one action per          *)
(* continuation after it.                                                  *)
(***************************************************************************)
EXTENDS Integers, FiniteSets, Sequences, TLC

\* ---------------------------------------------------------------- bounds
MaxConns == 3        \* socket connections that ever exist (ids 1..MaxConns)
MaxCodes == 2        \* distinct values generateRoomId can return
MaxRooms == 2        \* room objects ever constructed by create_room
MaxMoves == 2        \* largest moveNumber a client submits
RoomPending == 2     \* SpecRoom: awaited calls and armed timers outstanding at once
RoomObjects == 1     \* SpecRoom: room objects constructed
LiveClients == 2     \* SpecLobbyLive: clients that connect
LobbyPending == 1    \* SpecLobby: awaited calls and armed timers outstanding at once
MaxPlies == 2        \* SpecChess: moves, battles included, played from the drawn position
MaxPoints == 2       \* SpecRpg: attribute points the level-up dialog submits at once
MaxCalls == 2        \* SpecStorage: calls of completeGame made one after the other
MaxClicks == 4       \* SpecReconnect: connect() and disconnect() calls by the user

BoardSize == 8       \* rows and columns of the board
D20 == 20            \* faces of the battle die
maxReconnectAttempts == 5   \* retries the connection store schedules

Conns == 1..MaxConns
Codes == 1..MaxCodes
NoConn == 0               \* an unset players.white / players.black slot
NoCode == 0               \* an unset player.roomId; also a roomId the schema rejects
NoGame == 0               \* an unset room.gameId
GameStates == {"s1", "s2"} \* values of the client-supplied gameState (z.any())
Winners == {"white", "black", "draw"}
WinnerInputs == {"white", "none"}  \* "none": a winner gameEndSchema rejects

VARIABLES
    sockets,        \* per connection: "new", "connected" or "gone"
    playerSockets,  \* the Map playerSockets: socket id -> player entry
    gameRooms,      \* the Map gameRooms: room code -> GameRoom
    joined,         \* Socket.IO room membership: socket id -> set of codes
    nextSerial,     \* identity of the next GameRoom object to be constructed
    pending,        \* continuations of awaited calls and armed timers
    emitted,        \* the events emitted by the last step
    last,           \* the request or internal event handled by the last step
    useChessGame,   \* the client's game store (board, turn, phase, battle)
    useMultiplayer, \* the client's connection store (status, retries, socket)
    db              \* the database behind storage: games and user_stats rows

\* the state of the server process
server == <<sockets, playerSockets, gameRooms, joined, nextSerial, pending, emitted, last>>

vars == <<sockets, playerSockets, gameRooms, joined, nextSerial, pending, emitted, last,
          useChessGame, useMultiplayer, db>>

\* what a handler of the socket server leaves alone
outsideServer == <<useChessGame, useMultiplayer, db>>

\* what an action of the game store leaves alone
outsideGame == <<server, useMultiplayer, db>>

\* what a call of storage leaves alone
outsideStorage == <<server, useChessGame, useMultiplayer>>

\* what the connection store leaves alone
outsideConnection == <<server, useChessGame, db>>

\* ------------------------------------------------- the client: chess rules
\* (lib/chess/pieceData, lib/chess/chessLogic, lib/chess/battleSystem and the
\* store lib/stores/useChessGame). The uuid of a piece is the number of the
\* square createInitialBoard puts it on.

Colors == {"white", "black"}

Pos(row, col) == [row |-> row, col |-> col]

Squares == {Pos(r, c) : r \in 0..(BoardSize - 1), c \in 0..(BoardSize - 1)}

\* a null Position
NoSquare == Pos(-1, -1)

\* a null board entry
NoPiece ==
    [id |-> 0, type |-> "none", color |-> "none", health |-> 0,
     level |-> 0, xp |-> 0, unspentPoints |-> 0,
     mods |-> [attack |-> 0, defense |-> 0, maxHealth |-> 0], hasMoved |-> FALSE]

\* the id of the piece that starts on square sq
PieceId(sq) == sq.row * BoardSize + sq.col + 1

getPieceStats(type) ==
    CASE type = "pawn"   -> [maxHealth |-> 25,  attack |-> 8,  defense |-> 5]
      [] type = "rook"   -> [maxHealth |-> 60,  attack |-> 15, defense |-> 12]
      [] type = "knight" -> [maxHealth |-> 45,  attack |-> 12, defense |-> 8]
      [] type = "bishop" -> [maxHealth |-> 40,  attack |-> 10, defense |-> 7]
      [] type = "queen"  -> [maxHealth |-> 80,  attack |-> 18, defense |-> 15]
      [] type = "king"   -> [maxHealth |-> 100, attack |-> 12, defense |-> 18]

getEffectiveStats(piece) ==
    [maxHealth |-> getPieceStats(piece.type).maxHealth + piece.mods.maxHealth,
     attack    |-> getPieceStats(piece.type).attack + piece.mods.attack,
     defense   |-> getPieceStats(piece.type).defense + piece.mods.defense]

getMaxHealth(piece) == getPieceStats(piece.type).maxHealth + piece.mods.maxHealth

xpToNext(level) == 50 + 50 * (level - 1)

XP_BASE_VALUES(type) ==
    CASE type = "pawn"   -> 20
      [] type = "knight" -> 40
      [] type = "bishop" -> 40
      [] type = "rook"   -> 60
      [] type = "queen"  -> 100
      [] type = "king"   -> 150

\* Math.round(baseXP * Math.max(0.5, 1 + 0.2 * levelDelta)): every base value
\* is a multiple of 10, so the product is the integer below and the rounding
\* of the floating-point product returns it
calculateXPAward(winnerLevel, defeatedLevel, defeatedType) ==
    (XP_BASE_VALUES(defeatedType) \div 10)
        * (IF 10 + 2 * (defeatedLevel - winnerLevel) >= 5
           THEN 10 + 2 * (defeatedLevel - winnerLevel) ELSE 5)

\* calculateHealAmount without the healer's level bonus
calculateHealAmountFlat(bishopLevel, targetMaxHealth) ==
    (targetMaxHealth * 25) \div 100

\* Math.floor(targetMaxHealth * Math.min(0.25 + (bishopLevel - 1) * 0.05, 0.75)),
\* in hundredths; the floating-point product has this floor for every healer
\* below level 10 and every max health below 180
calculateHealAmount(bishopLevel, targetMaxHealth) ==
    (targetMaxHealth * (IF 25 + (bishopLevel - 1) * 5 <= 75
                        THEN 25 + (bishopLevel - 1) * 5 ELSE 75)) \div 100

\* a piece as createInitialBoard makes it, with the given id and health
NewPiece(id, type, color, health) ==
    [id |-> id, type |-> type, color |-> color, health |-> health,
     level |-> 1, xp |-> 0, unspentPoints |-> 0,
     mods |-> [attack |-> 0, defense |-> 0, maxHealth |-> 0], hasMoved |-> FALSE]

pieceOrder == <<"rook", "knight", "bishop", "queen", "king", "bishop", "knight", "rook">>

createInitialBoard ==
    [sq \in Squares |->
        IF sq.row = 0
        THEN NewPiece(PieceId(sq), pieceOrder[sq.col + 1], "black",
                      getPieceStats(pieceOrder[sq.col + 1]).maxHealth)
        ELSE IF sq.row = 1
        THEN NewPiece(PieceId(sq), "pawn", "black", getPieceStats("pawn").maxHealth)
        ELSE IF sq.row = 6
        THEN NewPiece(PieceId(sq), "pawn", "white", getPieceStats("pawn").maxHealth)
        ELSE IF sq.row = 7
        THEN NewPiece(PieceId(sq), pieceOrder[sq.col + 1], "white",
                      getPieceStats(pieceOrder[sq.col + 1]).maxHealth)
        ELSE NoPiece]

isValidPosition(row, col) == row >= 0 /\ row < BoardSize /\ col >= 0 /\ col < BoardSize

getPawnMoves(board, position, color) ==
    LET row == position.row
        col == position.col
        direction == IF color = "white" THEN -1 ELSE 1
        startRow == IF color = "white" THEN 6 ELSE 1
        forward ==
            IF isValidPosition(row + direction, col) /\ board[Pos(row + direction, col)] = NoPiece
            THEN {Pos(row + direction, col)} \cup
                 (IF row = startRow /\ board[Pos(row + 2 * direction, col)] = NoPiece
                  THEN {Pos(row + 2 * direction, col)} ELSE {})
            ELSE {}
        capturePositions == {Pos(row + direction, col - 1), Pos(row + direction, col + 1)}
    IN  forward \cup
        {pos \in capturePositions :
            /\ isValidPosition(pos.row, pos.col)
            /\ board[pos] # NoPiece /\ board[pos].color # color}

\* the loop of getRookMoves and getBishopMoves: walk from position in each
\* direction up to the first occupied square, which is taken if it is an enemy
Slide(board, position, color, directions) ==
    UNION {
        {Pos(position.row + i * d[1], position.col + i * d[2]) :
            i \in {n \in 1..(BoardSize - 1) :
                     /\ isValidPosition(position.row + n * d[1], position.col + n * d[2])
                     /\ \A j \in 1..(n - 1) :
                           board[Pos(position.row + j * d[1], position.col + j * d[2])] = NoPiece
                     /\ LET t == board[Pos(position.row + n * d[1], position.col + n * d[2])]
                        IN  t = NoPiece \/ t.color # color}}
        : d \in directions}

\* the loop of getKnightMoves and getKingMoves: the given offsets, on the
\* board, not onto a piece of the same color
Step(board, position, color, offsets) ==
    {Pos(position.row + d[1], position.col + d[2]) :
        d \in {o \in offsets :
                 /\ isValidPosition(position.row + o[1], position.col + o[2])
                 /\ LET t == board[Pos(position.row + o[1], position.col + o[2])]
                    IN  t = NoPiece \/ t.color # color}}

getRookMoves(board, position, color) ==
    Slide(board, position, color, {<<0, 1>>, <<0, -1>>, <<1, 0>>, <<-1, 0>>})

getKnightMoves(board, position, color) ==
    Step(board, position, color,
         {<<-2, -1>>, <<-2, 1>>, <<-1, -2>>, <<-1, 2>>, <<1, -2>>, <<1, 2>>, <<2, -1>>, <<2, 1>>})

getBishopMoves(board, position, color) ==
    Slide(board, position, color, {<<-1, -1>>, <<-1, 1>>, <<1, -1>>, <<1, 1>>})

getQueenMoves(board, position, color) ==
    getRookMoves(board, position, color) \cup getBishopMoves(board, position, color)

getKingMoves(board, position, color) ==
    Step(board, position, color,
         {<<-1, -1>>, <<-1, 0>>, <<-1, 1>>, <<0, -1>>, <<0, 1>>, <<1, -1>>, <<1, 0>>, <<1, 1>>})

\* the squares getValidMoves returns (the callers use only membership and
\* emptiness of the list)
getValidMoves(board, position) ==
    LET piece == board[position] IN
    CASE piece.type = "pawn"   -> getPawnMoves(board, position, piece.color)
      [] piece.type = "rook"   -> getRookMoves(board, position, piece.color)
      [] piece.type = "knight" -> getKnightMoves(board, position, piece.color)
      [] piece.type = "bishop" -> getBishopMoves(board, position, piece.color)
      [] piece.type = "queen"  -> getQueenMoves(board, position, piece.color)
      [] piece.type = "king"   -> getKingMoves(board, position, piece.color)
      [] OTHER -> {}

\* the first king of the color in row-major order, or null
findKing(board, color) ==
    LET kings == {sq \in Squares : board[sq].type = "king" /\ board[sq].color = color} IN
    IF kings = {} THEN NoSquare
    ELSE CHOOSE k \in kings :
            \A o \in kings : k.row < o.row \/ (k.row = o.row /\ k.col <= o.col)

\* the squares holding a piece of the color
PiecesOf(board, color) == {sq \in Squares : board[sq] # NoPiece /\ board[sq].color = color}

isInCheck(board, color) ==
    LET kingPosition == findKing(board, color)
        opponentColor == IF color = "white" THEN "black" ELSE "white"
    IN  IF kingPosition = NoSquare THEN FALSE
        ELSE \E sq \in PiecesOf(board, opponentColor) :
                kingPosition \in getValidMoves(board, sq)

isCheckmate(board, color) ==
    IF ~isInCheck(board, color) THEN FALSE
    ELSE \A sq \in PiecesOf(board, color) :
            \A move \in getValidMoves(board, sq) :
                isInCheck([board EXCEPT ![move] = board[sq], ![sq] = NoPiece], color)

isStalemate(board, color) ==
    IF isInCheck(board, color) THEN FALSE
    ELSE \A sq \in PiecesOf(board, color) : getValidMoves(board, sq) = {}

Max(a, b) == IF a >= b THEN a ELSE b

Min(a, b) == IF a <= b THEN a ELSE b

\* the values Math.floor(Math.random() * 20) + 1 is drawn from here
Rolls == {1, D20}

\* battleSystem.resolveBattle without the floor of 1 on the damage
battleResolveNoFloor(attacker, defender, attackerRoll, defenderRoll) ==
    LET attackerStats == getEffectiveStats(attacker)
        defenderStats == getEffectiveStats(defender)
        damage == Max(0, (attackerStats.attack + attackerRoll)
                            - (defenderStats.defense + defenderRoll))
        newDefenderHealth == Max(0, defender.health - damage)
        statDifference == defenderStats.attack - attackerStats.defense
        rollAdvantage == defenderRoll - attackerRoll
        counterDamage == Max(1, Min(3, statDifference))
        countered == statDifference > 2 /\ rollAdvantage > 10
    IN  [attacker |-> [attacker EXCEPT !.health =
                          IF newDefenderHealth <= 0 \/ ~countered THEN attacker.health
                          ELSE IF counterDamage >= attacker.health THEN 0
                          ELSE Max(1, attacker.health - counterDamage)],
         defender |-> [defender EXCEPT !.health = newDefenderHealth],
         originalAttacker |-> attacker,
         originalDefender |-> defender,
         attackerRoll |-> attackerRoll,
         defenderRoll |-> defenderRoll,
         damage |-> damage,
         result |-> IF newDefenderHealth <= 0 THEN "attacker_wins"
                    ELSE IF countered /\ counterDamage >= attacker.health
                    THEN "defender_wins" ELSE "both_survive"]

\* battleSystem.resolveBattle (imported by the store as battleResolve); the
\* two results of Math.random() are the parameters attackerRoll, defenderRoll
battleResolve(attacker, defender, attackerRoll, defenderRoll) ==
    LET attackerStats == getEffectiveStats(attacker)
        defenderStats == getEffectiveStats(defender)
        effectiveAttack == attackerStats.attack + attackerRoll
        effectiveDefense == defenderStats.defense + defenderRoll
        damage == Max(1, effectiveAttack - effectiveDefense)
        newDefenderHealth == Max(0, defender.health - damage)
        statDifference == defenderStats.attack - attackerStats.defense
        rollAdvantage == defenderRoll - attackerRoll
        counterDamage == Max(1, Min(3, statDifference))
        result ==
            IF newDefenderHealth <= 0 THEN "attacker_wins"
            ELSE IF statDifference > 2 /\ rollAdvantage > 10 /\ counterDamage >= attacker.health
                 THEN "defender_wins"
            ELSE "both_survive"
        finalAttackerHealth ==
            IF newDefenderHealth <= 0 THEN attacker.health
            ELSE IF statDifference > 2 /\ rollAdvantage > 10
                 THEN IF counterDamage >= attacker.health THEN 0
                      ELSE Max(1, attacker.health - counterDamage)
            ELSE attacker.health
        finalDefenderHealth == IF newDefenderHealth <= 0 THEN 0 ELSE newDefenderHealth
    IN  [attacker |-> [attacker EXCEPT !.health = finalAttackerHealth],
         defender |-> [defender EXCEPT !.health = finalDefenderHealth],
         originalAttacker |-> attacker,
         originalDefender |-> defender,
         attackerRoll |-> attackerRoll,
         defenderRoll |-> defenderRoll,
         damage |-> damage,
         result |-> result]

\* a null battleState
NoBattle ==
    [attacker |-> NoPiece, defender |-> NoPiece,
     originalAttacker |-> NoPiece, originalDefender |-> NoPiece,
     attackerRoll |-> 0, defenderRoll |-> 0, damage |-> 0, result |-> "none",
     attackerPosition |-> NoSquare, defenderPosition |-> NoSquare]

\* { ...battleResult, attackerPosition, defenderPosition }
WithPositions(r, attackerPosition, defenderPosition) ==
    [attacker |-> r.attacker, defender |-> r.defender,
     originalAttacker |-> r.originalAttacker, originalDefender |-> r.originalDefender,
     attackerRoll |-> r.attackerRoll, defenderRoll |-> r.defenderRoll,
     damage |-> r.damage, result |-> r.result,
     attackerPosition |-> attackerPosition, defenderPosition |-> defenderPosition]

\* the store as create() builds it; moveHistory is kept as its length,
\* levelUpQueue as the set of its ids (the code never adds an id twice), and
\* timers holds the callbacks handed to setTimeout that have not run yet
InitialStore ==
    [board |-> createInitialBoard, currentPlayer |-> "white", gamePhase |-> "ready",
     gameMode |-> "null", winner |-> "null", selectedSquare |-> NoSquare,
     validMoves |-> {}, battleState |-> NoBattle, moveHistory |-> 0,
     levelUpQueue |-> {}, activeLevelUpPieceId |-> 0, isHealMode |-> FALSE,
     promotionPosition |-> NoSquare, promotingPiece |-> NoPiece, timers |-> {}]

\* the "Check for game end" block shared by the store actions: the phase and
\* the winner after currentPlayer completed a move on newBoard
GameEndCheck(newBoard, currentPlayer) ==
    LET nextPlayer == IF currentPlayer = "white" THEN "black" ELSE "white" IN
    IF isCheckmate(newBoard, nextPlayer)
    THEN [winner |-> currentPlayer, phase |-> "ended"]
    ELSE IF isStalemate(newBoard, nextPlayer)
    THEN [winner |-> "null", phase |-> "ended"]
    ELSE [winner |-> "null", phase |-> "playing"]

\* a pawn of the color standing on this row is promoted
PromotionRow(color, row) ==
    (color = "white" /\ row = 0) \/ (color = "black" /\ row = BoardSize - 1)

\* the store after handleSquareClick(row, col) in state s (heal mode off)
ClickResult(s, row, col, attackerRoll, defenderRoll) ==
    LET board == s.board
        sq == Pos(row, col)
        clickedPiece == board[sq]
        selectedPiece == board[s.selectedSquare]
        moved == [selectedPiece EXCEPT !.hasMoved = TRUE]
        newBoard == [board EXCEPT ![sq] = moved, ![s.selectedSquare] = NoPiece]
        nextPlayer == IF s.currentPlayer = "white" THEN "black" ELSE "white"
        end == GameEndCheck(newBoard, s.currentPlayer)
    IN
    IF s.gamePhase # "playing" THEN s
    ELSE IF s.selectedSquare = NoSquare
    THEN IF clickedPiece # NoPiece /\ clickedPiece.color = s.currentPlayer
         THEN [s EXCEPT !.selectedSquare = sq, !.validMoves = getValidMoves(board, sq)]
         ELSE s
    ELSE IF s.selectedSquare = sq
    THEN [s EXCEPT !.selectedSquare = NoSquare, !.validMoves = {}]
    ELSE IF clickedPiece # NoPiece /\ clickedPiece.color = s.currentPlayer
    THEN [s EXCEPT !.selectedSquare = sq, !.validMoves = getValidMoves(board, sq)]
    ELSE IF sq \notin s.validMoves THEN s
    ELSE IF selectedPiece = NoPiece THEN s
    ELSE IF clickedPiece # NoPiece
    THEN [s EXCEPT
            !.battleState =
                WithPositions(
                    battleResolve(selectedPiece, clickedPiece, attackerRoll, defenderRoll),
                    s.selectedSquare, sq),
            !.gamePhase = "battle"]
    ELSE IF selectedPiece.type = "pawn" /\ PromotionRow(selectedPiece.color, row)
    THEN [s EXCEPT !.board = newBoard, !.promotionPosition = sq,
                   !.promotingPiece = moved, !.gamePhase = "promotion",
                   !.selectedSquare = NoSquare, !.validMoves = {}]
    ELSE [s EXCEPT !.board = newBoard, !.currentPlayer = nextPlayer,
                   !.selectedSquare = NoSquare, !.validMoves = {},
                   !.moveHistory = @ + 1, !.winner = end.winner, !.gamePhase = end.phase]

\* setTimeout(() => get().awardXP(pieceId, amount), 0)
AwardTimer(pieceId, amount) ==
    [kind |-> "awardXP", pieceId |-> pieceId, amount |-> amount, queue |-> {}]

\* setTimeout(() => set({ levelUpQueue: newLevelUpQueue }), 0)
QueueTimer(newLevelUpQueue) ==
    [kind |-> "levelUpQueue", pieceId |-> 0, amount |-> 0, queue |-> newLevelUpQueue]

\* the store action resolveBattle applied to state s (game mode pvp: the
\* promotion the AI schedules for itself in pvc is not taken)
BattleApplied(s) ==
    LET b == s.battleState
        xpTimers ==
            IF b.result = "attacker_wins"
            THEN {AwardTimer(b.attacker.id,
                      calculateXPAward(b.attacker.level, b.defender.level, b.defender.type))}
            ELSE IF b.result = "defender_wins"
            THEN {AwardTimer(b.defender.id,
                      calculateXPAward(b.defender.level, b.attacker.level, b.attacker.type))}
            ELSE {}
        winnerPiece == [b.attacker EXCEPT !.hasMoved = TRUE]
        newBoard ==
            IF b.result = "attacker_wins"
            THEN [s.board EXCEPT ![b.defenderPosition] = winnerPiece,
                                 ![b.attackerPosition] = NoPiece]
            ELSE IF b.result = "defender_wins"
            THEN [s.board EXCEPT ![b.attackerPosition] = NoPiece,
                                 ![b.defenderPosition] = b.defender]
            ELSE [s.board EXCEPT ![b.attackerPosition] = b.attacker,
                                 ![b.defenderPosition] = b.defender]
        nextPlayer == IF s.currentPlayer = "white" THEN "black" ELSE "white"
        end == GameEndCheck(newBoard, s.currentPlayer)
    IN
    IF b = NoBattle THEN s
    ELSE IF /\ b.result = "attacker_wins" /\ b.attacker.type = "pawn"
            /\ PromotionRow(b.attacker.color, b.defenderPosition.row)
    THEN [s EXCEPT !.board = newBoard, !.promotionPosition = b.defenderPosition,
                   !.promotingPiece = winnerPiece, !.gamePhase = "promotion",
                   !.selectedSquare = NoSquare, !.validMoves = {},
                   !.battleState = NoBattle, !.timers = @ \cup xpTimers]
    ELSE [s EXCEPT !.board = newBoard, !.currentPlayer = nextPlayer,
                   !.selectedSquare = NoSquare, !.validMoves = {},
                   !.battleState = NoBattle, !.gamePhase = end.phase,
                   !.moveHistory = @ + 1, !.winner = end.winner,
                   !.timers = @ \cup xpTimers]

\* the while loop of awardXP: level ups while the experience reaches the
\* threshold of the level
RECURSIVE LevelUps(_)
\* the level ups of awardXP with an if in place of the while
LevelUpsOnce(newPiece) ==
    IF newPiece.xp >= xpToNext(newPiece.level)
    THEN [newPiece EXCEPT !.xp = @ - xpToNext(newPiece.level),
                          !.level = @ + 1,
                          !.unspentPoints = @ + 1]
    ELSE newPiece

LevelUps(newPiece) ==
    IF newPiece.xp >= xpToNext(newPiece.level)
    THEN LevelUps([newPiece EXCEPT !.xp = @ - xpToNext(newPiece.level),
                                   !.level = @ + 1,
                                   !.unspentPoints = @ + 1])
    ELSE newPiece

\* the piece awardXP returns for a piece with the id it was called for
Awarded(piece, amount) == LevelUps([piece EXCEPT !.xp = @ + amount])

\* the store action awardXP(pieceId, amount) applied to state s
XPAwarded(s, pieceId, amount) ==
    LET leveled == {sq \in Squares : /\ s.board[sq].id = pieceId /\ s.board[sq] # NoPiece
                                      /\ Awarded(s.board[sq], amount).level
                                             # s.board[sq].level}
    IN  [s EXCEPT
            !.board = [sq \in Squares |->
                          IF s.board[sq] # NoPiece /\ s.board[sq].id = pieceId
                          THEN Awarded(s.board[sq], amount) ELSE s.board[sq]],
            !.timers = IF leveled # {}
                       THEN @ \cup {QueueTimer(s.levelUpQueue \cup {pieceId})}
                       ELSE @]

\* the allocations the level-up dialog submits for a piece: no field is
\* negative, at least one point and at most the unspent points are used
Allocations(unspentPoints) ==
    {a \in [attack : 0..unspentPoints, defense : 0..unspentPoints,
            maxHealth : 0..unspentPoints] :
        /\ a.attack + a.defense + a.maxHealth >= 1
        /\ a.attack + a.defense + a.maxHealth <= unspentPoints}

\* the piece allocateAttributes returns for a piece with the id it was called for
Allocated(piece, allocation) ==
    LET pointsUsed == allocation.attack + allocation.defense + allocation.maxHealth
        newMods == [attack |-> piece.mods.attack + allocation.attack,
                    defense |-> piece.mods.defense + allocation.defense,
                    maxHealth |-> piece.mods.maxHealth + allocation.maxHealth]
        newHealth ==
            IF allocation.maxHealth > 0
            THEN Min(getMaxHealth([piece EXCEPT !.mods = newMods]),
                     piece.health + allocation.maxHealth)
            ELSE piece.health
    IN  IF pointsUsed > piece.unspentPoints THEN piece
        ELSE [piece EXCEPT !.mods = newMods, !.health = newHealth,
                           !.unspentPoints = @ - pointsUsed]

\* the store action allocateAttributes(pieceId, allocation) applied to state s
AttributesAllocated(s, pieceId, allocation) ==
    LET newBoard == [sq \in Squares |->
                        IF s.board[sq] # NoPiece /\ s.board[sq].id = pieceId
                        THEN Allocated(s.board[sq], allocation) ELSE s.board[sq]]
        spent == \E sq \in Squares : /\ newBoard[sq].id = pieceId /\ newBoard[sq] # NoPiece
                                      /\ newBoard[sq].unspentPoints = 0
        newLevelUpQueue == IF spent THEN s.levelUpQueue \ {pieceId} ELSE s.levelUpQueue
    IN  [s EXCEPT !.board = newBoard, !.levelUpQueue = newLevelUpQueue,
                  !.activeLevelUpPieceId = IF newLevelUpQueue # {} THEN @ ELSE 0]

\* performHeal without the cap at the target's max health
HealPerformedUncapped(s, bishopPosition, targetPosition) ==
    LET bishop == s.board[bishopPosition]
        target == s.board[targetPosition]
        healAmount == calculateHealAmount(bishop.level, getMaxHealth(target))
        nextPlayer == IF s.currentPlayer = "white" THEN "black" ELSE "white"
    IN  IF \/ bishop = NoPiece \/ target = NoPiece
           \/ bishop.type # "bishop" \/ bishop.color # target.color
        THEN s
        ELSE [s EXCEPT !.board = [@ EXCEPT ![targetPosition].health = @ + healAmount],
                       !.currentPlayer = nextPlayer,
                       !.selectedSquare = NoSquare, !.validMoves = {},
                       !.isHealMode = FALSE, !.moveHistory = @ + 1]

\* the store action performHeal(bishopPosition, targetPosition) applied to s
HealPerformed(s, bishopPosition, targetPosition) ==
    LET bishop == s.board[bishopPosition]
        target == s.board[targetPosition]
        targetMaxHealth == getMaxHealth(target)
        healAmount == calculateHealAmount(bishop.level, targetMaxHealth)
        newHealth == Min(targetMaxHealth, target.health + healAmount)
        nextPlayer == IF s.currentPlayer = "white" THEN "black" ELSE "white"
    IN  IF \/ bishop = NoPiece \/ target = NoPiece
           \/ bishop.type # "bishop" \/ bishop.color # target.color
        THEN s
        ELSE [s EXCEPT !.board = [@ EXCEPT ![targetPosition].health = newHealth],
                       !.currentPlayer = nextPlayer,
                       !.selectedSquare = NoSquare, !.validMoves = {},
                       !.isHealMode = FALSE, !.moveHistory = @ + 1]

\* the piece types PromotionModal offers
PromotionPieceType == {"queen", "rook", "bishop", "knight"}

\* the store action promotePawn(pieceType) applied to state s
PawnPromoted(s, pieceType) ==
    LET promotedPiece == [s.promotingPiece EXCEPT
                             !.type = pieceType,
                             !.health = getPieceStats(pieceType).maxHealth,
                             !.hasMoved = TRUE]
        placed == [s.board EXCEPT ![s.promotionPosition] = promotedPiece]
        newBoard == IF s.selectedSquare # NoSquare
                    THEN [placed EXCEPT ![s.selectedSquare] = NoPiece] ELSE placed
        nextPlayer == IF s.currentPlayer = "white" THEN "black" ELSE "white"
        end == GameEndCheck(newBoard, s.currentPlayer)
    IN  IF s.promotionPosition = NoSquare \/ s.promotingPiece = NoPiece THEN s
        ELSE [s EXCEPT !.board = newBoard, !.currentPlayer = nextPlayer,
                       !.selectedSquare = NoSquare, !.validMoves = {},
                       !.promotionPosition = NoSquare, !.promotingPiece = NoPiece,
                       !.gamePhase = end.phase, !.moveHistory = @ + 1,
                       !.winner = end.winner]

\* ------------------------------------------------------------- the server

\* gameRooms.get(code) === undefined
NoRoom ==
    [serial |-> 0, white |-> NoConn, black |-> NoConn, gameState |-> "null",
     status |-> "none", currentTurn |-> "white", moveCount |-> 0,
     expired |-> FALSE, gameId |-> NoGame]

\* playerSockets.get(id) === undefined
NoPlayer == [present |-> FALSE, roomId |-> NoCode]

\* interface GameRoom
GameRoom ==
    [serial : 0..MaxRooms, white : Conns \cup {NoConn}, black : Conns \cup {NoConn},
     gameState : GameStates \cup {"null"},
     status : {"none", "waiting", "playing", "finished"},
     currentTurn : {"white", "black"}, moveCount : 0..MaxMoves,
     expired : BOOLEAN, gameId : 0..MaxRooms]

Has(code) == code \in Codes /\ gameRooms[code].status # "none"

\* one emitted event: the receiving socket, the event name, the Socket.IO
\* room or code it concerns, the moveNumber it carries (0 when none) and the
\* client-supplied gameState (with the move) it relays ("null" when none)
Payload(to, ev, code, n, g) ==
    [to |-> to, ev |-> ev, code |-> code, moveNumber |-> n, gameState |-> g]

Msg(to, ev, code, n) == Payload(to, ev, code, n, "null")

\* socket.emit(ev, ...): delivered if the socket is still connected
EmitTo(c, ev, code, n) ==
    IF sockets[c] = "connected" THEN {Msg(c, ev, code, n)} ELSE {}

\* io.to(code).emit(ev, ...): every socket in the Socket.IO room
EmitRoom(code, ev, n) ==
    {Msg(d, ev, code, n) : d \in {x \in Conns : code \in joined[x]}}

\* socket.to(code).emit(ev, ...): every socket in the room but the sender
EmitOthers(c, code, ev, n) ==
    {Msg(d, ev, code, n) : d \in {x \in Conns : code \in joined[x] /\ x # c}}

Req(kind, c, code, n, err) ==
    [kind |-> kind, conn |-> c, code |-> code, moveNumber |-> n, error |-> err]

\* a rejection that tells the whole Socket.IO room instead of the sender
RejectToRoom(kind, c, code, n, err) ==
    /\ emitted' = EmitTo(c, "error", NoCode, 0) \cup EmitRoom(code, "error", 0)
    /\ last' = Req(kind, c, code, n, err)
    /\ UNCHANGED <<sockets, playerSockets, gameRooms, joined, nextSerial, pending>>

\* ------------------------------------------- the client: connection store
\* the connection store as create() builds it. socket is the state of the
\* socket object the store holds ("null", "opening", "open", "failed",
\* "closed"), timers the number of retry callbacks setTimeout holds, calls the
\* number of connect() and disconnect() calls the user has made
InitialConnection ==
    [socket |-> "null", connectionStatus |-> "disconnected", isConnected |-> FALSE,
     reconnectAttempts |-> 0, error |-> "null", timers |-> 0, calls |-> 0]

\* the body of connect(userId, username) on store m: nothing while a
\* connection is in progress or established, else a new socket is opened (the
\* listeners of the old one are removed)
Connecting(m) ==
    IF m.connectionStatus \in {"connecting", "connected"} THEN m
    ELSE [m EXCEPT !.connectionStatus = "connecting", !.error = "null",
                   !.socket = "opening"]

\* the user calls connect
connect ==
    /\ useMultiplayer.calls < MaxClicks
    /\ useMultiplayer' = Connecting([useMultiplayer EXCEPT !.calls = @ + 1])
    /\ UNCHANGED outsideConnection

\* socket.on('connect')
SocketConnect ==
    /\ useMultiplayer.socket = "opening"
    /\ useMultiplayer' = [useMultiplayer EXCEPT
                             !.socket = "open", !.connectionStatus = "connected",
                             !.isConnected = TRUE, !.reconnectAttempts = 0,
                             !.error = "null"]
    /\ UNCHANGED outsideConnection

\* socket.on('connect_error') that schedules a retry whatever the count
SocketConnectErrorUnbounded ==
    /\ useMultiplayer.socket = "opening"
    /\ useMultiplayer' =
           [useMultiplayer EXCEPT
               !.socket = "failed", !.connectionStatus = "disconnected",
               !.isConnected = FALSE, !.error = "Connection failed",
               !.reconnectAttempts = @ + 1,
               !.timers = @ + 1]
    /\ UNCHANGED outsideConnection

\* socket.on('connect_error')
SocketConnectError ==
    /\ useMultiplayer.socket = "opening"
    /\ useMultiplayer' =
           [useMultiplayer EXCEPT
               !.socket = "failed", !.connectionStatus = "disconnected",
               !.isConnected = FALSE, !.error = "Connection failed",
               !.reconnectAttempts =
                   IF @ < maxReconnectAttempts THEN @ + 1 ELSE @,
               !.timers =
                   IF useMultiplayer.reconnectAttempts < maxReconnectAttempts
                   THEN @ + 1 ELSE @]
    /\ UNCHANGED outsideConnection

\* socket.on('disconnect') with a reason other than 'io client disconnect'
\* (the store removes the listeners before it disconnects a socket itself)
SocketDisconnect ==
    /\ useMultiplayer.socket = "open"
    /\ useMultiplayer' =
           [useMultiplayer EXCEPT
               !.socket = "closed", !.connectionStatus = "disconnected",
               !.isConnected = FALSE,
               !.error = IF useMultiplayer.reconnectAttempts >= maxReconnectAttempts
                         THEN "Connection failed after multiple attempts" ELSE @,
               !.reconnectAttempts =
                   IF @ < maxReconnectAttempts THEN @ + 1 ELSE @,
               !.timers =
                   IF useMultiplayer.reconnectAttempts < maxReconnectAttempts
                   THEN @ + 1 ELSE @]
    /\ UNCHANGED outsideConnection

\* a retry callback runs: connect again if the status is still disconnected
RetryTimerFires ==
    /\ useMultiplayer.timers > 0
    /\ LET m == [useMultiplayer EXCEPT !.timers = @ - 1] IN
       useMultiplayer' = IF m.connectionStatus = "disconnected" THEN Connecting(m) ELSE m
    /\ UNCHANGED outsideConnection

\* the user calls disconnect(): the retry callbacks are not cleared
disconnect ==
    /\ useMultiplayer.calls < MaxClicks
    /\ useMultiplayer' = [useMultiplayer EXCEPT
                             !.calls = @ + 1,
                             !.socket = "null", !.connectionStatus = "disconnected",
                             !.isConnected = FALSE, !.error = "null",
                             !.reconnectAttempts = 0]
    /\ UNCHANGED outsideConnection

\* ------------------------------------------------------ storage: completeGame
\* the ids of the rows of games, and the ids a caller passes
GameIds == {1}

GameIdInputs == {1, 2}

UserIds == 1..3

NoUser == 0

\* a row of games (shared/schema games) and the absence of one
NoGameRow ==
    [present |-> FALSE, player1Id |-> NoUser, player2Id |-> NoUser, status |-> "none",
     winner |-> "null", winnerUserId |-> NoUser, whitePoints |-> 0, blackPoints |-> 0,
     completedAt |-> 0, updatedAt |-> 0]

GameRow(player1Id, player2Id, status, whitePoints, blackPoints) ==
    [NoGameRow EXCEPT !.present = TRUE, !.player1Id = player1Id, !.player2Id = player2Id,
                      !.status = status, !.whitePoints = whitePoints,
                      !.blackPoints = blackPoints]

\* a row of user_stats and the absence of one
NoStats ==
    [present |-> FALSE, gamesPlayed |-> 0, gamesWon |-> 0, gamesLost |-> 0,
     rating |-> 0, totalPoints |-> 0, level |-> 0, updatedAt |-> 0]

\* tx.insert(userStats).values({ ... }) of completeGame
NewStats ==
    [present |-> TRUE, gamesPlayed |-> 0, gamesWon |-> 0, gamesLost |-> 0,
     rating |-> 1200, totalPoints |-> 0, level |-> 1, updatedAt |-> 0]

\* level = 1 + floor((totalPoints + gamesWon * 10) / 50)
computeLevel(totalPoints, gamesWon) == 1 + (totalPoints + gamesWon * 10) \div 50

\* what a call resolved with: a row, or a rejection (ok is FALSE)
Resolved(row) == [ok |-> TRUE, game |-> row]

Rejected == [ok |-> FALSE, game |-> NoGameRow]

\* the database before any game was recorded; now is the clock new Date() reads
InitialDatabase ==
    [games |-> [g \in GameIds |-> NoGameRow],
     userStats |-> [u \in UserIds |-> NoStats],
     now |-> 0,
     returned |-> Rejected]

\* the block of completeGame that updates the stats of one player
PlayerStatsUpdated(d, playerId, actualWinnerUserId, winnerColor, winnerPoints) ==
    IF playerId = NoUser THEN d
    ELSE LET stats == IF d.userStats[playerId].present
                      THEN d.userStats[playerId] ELSE NewStats
             isWinner == actualWinnerUserId = playerId
             isLoser == winnerColor # "draw" /\ ~isWinner
             totalPoints == stats.totalPoints + (IF isWinner THEN winnerPoints ELSE 0)
             gamesWon == stats.gamesWon + (IF isWinner THEN 1 ELSE 0)
         IN  [d EXCEPT !.userStats[playerId] =
                 [stats EXCEPT !.gamesPlayed = @ + 1,
                               !.gamesWon = gamesWon,
                               !.gamesLost = @ + (IF isLoser THEN 1 ELSE 0),
                               !.totalPoints = totalPoints,
                               !.level = computeLevel(totalPoints, gamesWon),
                               !.updatedAt = d.now]]

\* completeGame without the idempotency guard of lines 343-346
GameCompletedUnguarded(d, id, winnerColor, winnerUserId) ==
    IF id \notin GameIds \/ ~d.games[id].present THEN [d EXCEPT !.returned = Rejected]
    ELSE LET gameData == d.games[id]
             winnerPoints == IF winnerColor = "white" THEN gameData.whitePoints
                             ELSE IF winnerColor = "black" THEN gameData.blackPoints
                             ELSE 0
             updatedGame == [gameData EXCEPT !.status = "completed",
                                             !.winner = winnerColor,
                                             !.winnerUserId = winnerUserId,
                                             !.completedAt = d.now,
                                             !.updatedAt = d.now]
             actualWinnerUserId ==
                 IF winnerUserId # NoUser THEN winnerUserId
                 ELSE IF winnerColor = "white" THEN gameData.player1Id
                 ELSE IF winnerColor = "black" THEN gameData.player2Id
                 ELSE NoUser
             written == [d EXCEPT !.games[id] = updatedGame,
                                  !.returned = Resolved(updatedGame)]
         IN  PlayerStatsUpdated(
                 PlayerStatsUpdated(written, gameData.player1Id, actualWinnerUserId,
                                    winnerColor, winnerPoints),
                 gameData.player2Id, actualWinnerUserId, winnerColor, winnerPoints)

\* PostgresStorage.completeGame(id, winnerColor, winnerUserId) on database d:
\* one transaction, which a throw ('Game not found') rolls back
GameCompleted(d, id, winnerColor, winnerUserId) ==
    IF id \notin GameIds \/ ~d.games[id].present THEN [d EXCEPT !.returned = Rejected]
    ELSE LET gameData == d.games[id]
             winnerPoints == IF winnerColor = "white" THEN gameData.whitePoints
                             ELSE IF winnerColor = "black" THEN gameData.blackPoints
                             ELSE 0
             updatedGame == [gameData EXCEPT !.status = "completed",
                                             !.winner = winnerColor,
                                             !.winnerUserId = winnerUserId,
                                             !.completedAt = d.now,
                                             !.updatedAt = d.now]
             actualWinnerUserId ==
                 IF winnerUserId # NoUser THEN winnerUserId
                 ELSE IF winnerColor = "white" THEN gameData.player1Id
                 ELSE IF winnerColor = "black" THEN gameData.player2Id
                 ELSE NoUser
             written == [d EXCEPT !.games[id] = updatedGame,
                                  !.returned = Resolved(updatedGame)]
         IN  IF gameData.status = "completed"
             THEN [d EXCEPT !.returned = Resolved(gameData)]
             ELSE PlayerStatsUpdated(
                      PlayerStatsUpdated(written, gameData.player1Id, actualWinnerUserId,
                                         winnerColor, winnerPoints),
                      gameData.player2Id, actualWinnerUserId, winnerColor, winnerPoints)

\* a caller awaits storage.completeGame: the clock has advanced
completeGame(id, winnerColor, winnerUserId) ==
    /\ db.now < MaxCalls
    /\ db' = GameCompleted([db EXCEPT !.now = @ + 1], id, winnerColor, winnerUserId)
    /\ UNCHANGED outsideStorage

\* a rejected request: one error event { message } to the sender, nothing else
\* changes
Reject(kind, c, code, n, err) ==
    /\ emitted' = EmitTo(c, "error", NoCode, 0)
    /\ last' = Req(kind, c, code, n, err)
    /\ UNCHANGED <<sockets, playerSockets, gameRooms, joined, nextSerial, pending>>

\* the process of the socket server imports no client module: in a scenario
\* of the server no game store is mounted
NoStore == [gamePhase |-> "unmounted"]

Init ==
    /\ sockets = [c \in Conns |-> "new"]
    /\ playerSockets = [c \in Conns |-> NoPlayer]
    /\ gameRooms = [k \in Codes |-> NoRoom]
    /\ joined = [c \in Conns |-> {}]
    /\ nextSerial = 1
    /\ pending = {}
    /\ emitted = {}
    /\ last = Req("init", NoConn, NoCode, 0, "ok")
    /\ useMultiplayer = InitialConnection
    /\ db = InitialDatabase
    /\ useChessGame = NoStore

\* io.on('connection'): the socket passed authenticateSocket; socket ids are
\* numbered in the order of connection
Connect(c) ==
    /\ sockets[c] = "new"
    /\ \A d \in Conns : d < c => sockets[d] # "new"
    /\ sockets' = [sockets EXCEPT ![c] = "connected"]
    /\ playerSockets' = [playerSockets EXCEPT ![c] = [present |-> TRUE, roomId |-> NoCode]]
    /\ emitted' = {Msg(c, "authenticated", NoCode, 0)}
    /\ last' = Req("connect", c, NoCode, 0, "ok")
    /\ UNCHANGED <<gameRooms, joined, nextSerial, pending>>

\* the handlers of create_room, join_room, make_move and game_end registered
\* for every socket, without io.use(authenticateSocket) in front
ListeningUnauthenticated(c) == sockets[c] # "gone"

\* the socket has its handlers: they are registered in io.on('connection'),
\* which runs only for sockets that passed authenticateSocket, and a
\* disconnected socket delivers no event; a socket still "new" stands for one
\* that never authenticated
Listening(c) == sockets[c] = "connected"

\* socket.on('create_room'): wellFormed is whether createRoomSchema.parse
\* accepts the payload; code is the value generateRoomId returns
CreateRoomError(c, wellFormed) ==
    IF ~wellFormed THEN "Invalid request data"
    ELSE IF ~playerSockets[c].present THEN "Not authenticated"
    ELSE "ok"

CreateRoom(c, wellFormed, code) ==
    /\ Listening(c)
    /\ LET err == CreateRoomError(c, wellFormed) IN
       IF err # "ok"
       THEN Reject("create_room", c, NoCode, 0, err)
       ELSE /\ nextSerial <= MaxRooms
            /\ gameRooms' = [gameRooms EXCEPT ![code] =
                   [serial |-> nextSerial, white |-> c, black |-> NoConn,
                    gameState |-> "null", status |-> "waiting",
                    currentTurn |-> "white", moveCount |-> 0,
                    expired |-> FALSE, gameId |-> NoGame]]
            /\ nextSerial' = nextSerial + 1
            /\ playerSockets' = [playerSockets EXCEPT ![c].roomId = code]
            /\ joined' = [joined EXCEPT ![c] = @ \cup {code}]
            /\ emitted' = {Msg(c, "room_created", code, 0)}
            /\ last' = Req("create_room", c, code, 0, "ok")
            /\ UNCHANGED <<sockets, pending>>

\* gameRooms.delete(code)
Delete(code) == [gameRooms EXCEPT ![code] = NoRoom]

\* join_room without the status check of lines 430-433
JoinRoomErrorNoStatus(c, roomId) ==
    IF roomId \notin Codes THEN "Invalid request data"
    ELSE IF ~playerSockets[c].present THEN "Not authenticated"
    ELSE IF ~Has(roomId) THEN "Room not found"
    ELSE IF gameRooms[roomId].black # NoConn THEN "Room is full"
    ELSE "ok"

\* socket.on('join_room'), up to the await of storage.createGame
JoinRoomError(c, roomId) ==
    IF roomId \notin Codes THEN "Invalid request data"
    ELSE IF ~playerSockets[c].present THEN "Not authenticated"
    ELSE IF ~Has(roomId) THEN "Room not found"
    ELSE IF gameRooms[roomId].status # "waiting" THEN "Room is not available"
    ELSE IF gameRooms[roomId].black # NoConn THEN "Room is full"
    ELSE "ok"

JoinRoom(c, roomId) ==
    /\ Listening(c)
    /\ LET err == JoinRoomError(c, roomId) IN
       IF err # "ok"
       THEN Reject("join_room", c, roomId, 0, err)
       ELSE /\ gameRooms' = [gameRooms EXCEPT ![roomId].black = c,
                                              ![roomId].status = "playing"]
            /\ playerSockets' = [playerSockets EXCEPT ![c].roomId = roomId]
            /\ joined' = [joined EXCEPT ![c] = @ \cup {roomId}]
            /\ pending' = pending \cup {[kind |-> "join", code |-> roomId,
                     serial |-> gameRooms[roomId].serial, conn |-> c]}
            /\ emitted' = {}
            /\ last' = Req("join_room", c, roomId, 0, "ok")
            /\ UNCHANGED <<sockets, nextSerial>>

\* join_room after the await: storage.createGame resolved (dbOk) or threw;
\* room.gameId is written to the room object the handler holds, which is
\* still in the registry only if no later room replaced or removed it
JoinCreated(t, dbOk) ==
    /\ t \in pending /\ t.kind = "join"
    /\ gameRooms' =
           IF dbOk /\ Has(t.code) /\ gameRooms[t.code].serial = t.serial
           THEN [gameRooms EXCEPT ![t.code].gameId = t.serial]
           ELSE gameRooms
    /\ pending' = pending \ {t}
    /\ emitted' = EmitRoom(t.code, "game_start", 0)
    /\ last' = Req(IF dbOk THEN "join_created" ELSE "join_failed",
                   t.conn, t.code, 0, "ok")
    /\ UNCHANGED <<sockets, playerSockets, joined, nextSerial>>

\* socket.on('make_move'), up to the first await; moveNumber 0 stands for a
\* payload makeMoveSchema rejects (moveNumber must be a positive integer)
PlayerColor(c, roomId) ==
    IF gameRooms[roomId].white = c THEN "white" ELSE "black"

\* a turn that is not passed on
OtherKept(color) == color

Other(color) == IF color = "white" THEN "black" ELSE "white"

\* make_move rejecting only move numbers that fall behind (< instead of !==)
MakeMoveErrorAheadAccepted(c, roomId, moveNumber) ==
    IF roomId \notin Codes \/ moveNumber < 1 THEN "Invalid move data"
    ELSE IF ~playerSockets[c].present THEN "Not authenticated"
    ELSE IF ~Has(roomId) THEN "Room not found"
    ELSE IF gameRooms[roomId].status # "playing" THEN "Game is not active"
    ELSE IF gameRooms[roomId].white # c /\ gameRooms[roomId].black # c
         THEN "Not a player in this room"
    ELSE IF gameRooms[roomId].currentTurn # PlayerColor(c, roomId) THEN "Not your turn"
    ELSE IF moveNumber < gameRooms[roomId].moveCount + 1 THEN "Invalid move sequence"
    ELSE "ok"

\* make_move without the move number check of lines 514-518
MakeMoveErrorNoSequence(c, roomId, moveNumber) ==
    IF roomId \notin Codes \/ moveNumber < 1 THEN "Invalid move data"
    ELSE IF ~playerSockets[c].present THEN "Not authenticated"
    ELSE IF ~Has(roomId) THEN "Room not found"
    ELSE IF gameRooms[roomId].status # "playing" THEN "Game is not active"
    ELSE IF gameRooms[roomId].white # c /\ gameRooms[roomId].black # c
         THEN "Not a player in this room"
    ELSE IF gameRooms[roomId].currentTurn # PlayerColor(c, roomId) THEN "Not your turn"
    ELSE "ok"

\* make_move rejecting only move numbers that run ahead (> instead of !==)
MakeMoveErrorStaleAccepted(c, roomId, moveNumber) ==
    IF roomId \notin Codes \/ moveNumber < 1 THEN "Invalid move data"
    ELSE IF ~playerSockets[c].present THEN "Not authenticated"
    ELSE IF ~Has(roomId) THEN "Room not found"
    ELSE IF gameRooms[roomId].status # "playing" THEN "Game is not active"
    ELSE IF gameRooms[roomId].white # c /\ gameRooms[roomId].black # c
         THEN "Not a player in this room"
    ELSE IF gameRooms[roomId].currentTurn # PlayerColor(c, roomId) THEN "Not your turn"
    ELSE IF moveNumber > gameRooms[roomId].moveCount + 1 THEN "Invalid move sequence"
    ELSE "ok"

\* make_move without the turn check of lines 508-512
MakeMoveErrorNoTurn(c, roomId, moveNumber) ==
    IF roomId \notin Codes \/ moveNumber < 1 THEN "Invalid move data"
    ELSE IF ~playerSockets[c].present THEN "Not authenticated"
    ELSE IF ~Has(roomId) THEN "Room not found"
    ELSE IF gameRooms[roomId].status # "playing" THEN "Game is not active"
    ELSE IF gameRooms[roomId].white # c /\ gameRooms[roomId].black # c
         THEN "Not a player in this room"
    ELSE IF moveNumber # gameRooms[roomId].moveCount + 1 THEN "Invalid move sequence"
    ELSE "ok"

MakeMoveError(c, roomId, moveNumber) ==
    IF roomId \notin Codes \/ moveNumber < 1 THEN "Invalid move data"
    ELSE IF ~playerSockets[c].present THEN "Not authenticated"
    ELSE IF ~Has(roomId) THEN "Room not found"
    ELSE IF gameRooms[roomId].status # "playing" THEN "Game is not active"
    ELSE IF gameRooms[roomId].white # c /\ gameRooms[roomId].black # c
         THEN "Not a player in this room"
    ELSE IF gameRooms[roomId].currentTurn # PlayerColor(c, roomId) THEN "Not your turn"
    ELSE IF moveNumber # gameRooms[roomId].moveCount + 1 THEN "Invalid move sequence"
    ELSE "ok"

\* the two emits of make_move with the broadcast made through io.to(roomId),
\* which reaches the sender as well
MoveEventsToRoom(c, roomId, moveNumber, gameState) ==
    {Payload(m.to, m.ev, m.code, m.moveNumber, gameState) :
        m \in EmitRoom(roomId, "opponent_move", moveNumber)
                 \cup EmitTo(c, "move_accepted", roomId, moveNumber)}

\* the two emits that end make_move: move and gameState are the values the
\* handler parsed from the request
MoveEvents(c, roomId, moveNumber, gameState) ==
    {Payload(m.to, m.ev, m.code, m.moveNumber, gameState) :
        m \in EmitOthers(c, roomId, "opponent_move", moveNumber)
                 \cup EmitTo(c, "move_accepted", roomId, moveNumber)}

\* make_move writing room.moveCount only after its persistence calls settled
\* (the write is lost here: the continuation of the model does not make it)
MakeMoveLateCount(c, roomId, moveNumber, gameState) ==
    /\ Listening(c)
    /\ LET err == MakeMoveError(c, roomId, moveNumber) IN
       IF err # "ok"
       THEN Reject("make_move", c, roomId, moveNumber, err)
       ELSE /\ gameRooms' = [gameRooms EXCEPT
                   ![roomId].gameState = gameState,
                   ![roomId].currentTurn = Other(PlayerColor(c, roomId))]
            /\ IF gameRooms[roomId].gameId # NoGame
               THEN /\ pending' = pending \cup {[kind |-> "move", code |-> roomId,
                             serial |-> gameRooms[roomId].serial, conn |-> c,
                             moveNumber |-> moveNumber, gameState |-> gameState]}
                    /\ emitted' = {}
               ELSE /\ pending' = pending
                    /\ emitted' = MoveEvents(c, roomId, moveNumber, gameState)
            /\ last' = Req("make_move", c, roomId, moveNumber, "ok")
            /\ UNCHANGED <<sockets, playerSockets, joined, nextSerial>>

MakeMove(c, roomId, moveNumber, gameState) ==
    /\ Listening(c)
    /\ LET err == MakeMoveError(c, roomId, moveNumber) IN
       IF err # "ok"
       THEN Reject("make_move", c, roomId, moveNumber, err)
       ELSE /\ gameRooms' = [gameRooms EXCEPT
                   ![roomId].gameState = gameState,
                   ![roomId].currentTurn = Other(PlayerColor(c, roomId)),
                   ![roomId].moveCount = moveNumber]
            /\ IF gameRooms[roomId].gameId # NoGame
               THEN /\ pending' = pending \cup {[kind |-> "move", code |-> roomId,
                             serial |-> gameRooms[roomId].serial, conn |-> c,
                             moveNumber |-> moveNumber, gameState |-> gameState]}
                    /\ emitted' = {}
               ELSE /\ pending' = pending
                    /\ emitted' = MoveEvents(c, roomId, moveNumber, gameState)
            /\ last' = Req("make_move", c, roomId, moveNumber, "ok")
            /\ UNCHANGED <<sockets, playerSockets, joined, nextSerial>>

\* make_move whose storage calls are not wrapped in their own try: a failure
\* reaches the catch of the handler, which answers with an error
MovePersistedUncaught(t, dbOk) ==
    /\ t \in pending /\ t.kind = "move"
    /\ pending' = pending \ {t}
    /\ emitted' = IF dbOk THEN MoveEvents(t.conn, t.code, t.moveNumber, t.gameState)
                  ELSE EmitTo(t.conn, "error", NoCode, 0)
    /\ last' = Req(IF dbOk THEN "move_persisted" ELSE "move_failed",
                   t.conn, t.code, t.moveNumber, "ok")
    /\ UNCHANGED <<sockets, playerSockets, gameRooms, joined, nextSerial>>

\* make_move after storage.updateGameState and storage.addGameMove settled
\* (dbOk) or one of them threw into the catch of lines 535-537
MovePersisted(t, dbOk) ==
    /\ t \in pending /\ t.kind = "move"
    /\ pending' = pending \ {t}
    /\ emitted' = MoveEvents(t.conn, t.code, t.moveNumber, t.gameState)
    /\ last' = Req(IF dbOk THEN "move_persisted" ELSE "move_failed",
                   t.conn, t.code, t.moveNumber, "ok")
    /\ UNCHANGED <<sockets, playerSockets, gameRooms, joined, nextSerial>>

\* game_end without the slot check of lines 579-586
GameEndErrorNoSlot(c, roomId, winner) ==
    IF roomId \notin Codes \/ winner \notin Winners THEN "Invalid game end data"
    ELSE IF ~playerSockets[c].present THEN "Not authenticated"
    ELSE IF ~Has(roomId) THEN "Room not found"
    ELSE "ok"

\* socket.on('game_end'), up to the first await
GameEndError(c, roomId, winner) ==
    IF roomId \notin Codes \/ winner \notin Winners THEN "Invalid game end data"
    ELSE IF ~playerSockets[c].present THEN "Not authenticated"
    ELSE IF ~Has(roomId) THEN "Room not found"
    ELSE IF gameRooms[roomId].white # c /\ gameRooms[roomId].black # c
         THEN "Not a player in this room"
    ELSE "ok"

\* setTimeout(() => gameRooms.delete(roomId), 60000)
\* (serial is the room object the handler held when it set the timer; the
\* callback does not use it)
EndTimer(code, serial) == [kind |-> "endTimer", code |-> code, serial |-> serial]

GameEnd(c, roomId, winner, gameState) ==
    /\ Listening(c)
    /\ LET err == GameEndError(c, roomId, winner) IN
       IF err # "ok"
       THEN Reject("game_end", c, roomId, 0, err)
       ELSE /\ gameRooms' = [gameRooms EXCEPT ![roomId].status = "finished",
                                              ![roomId].gameState = gameState]
            /\ IF gameRooms[roomId].gameId # NoGame
               THEN /\ pending' = pending \cup {[kind |-> "end", code |-> roomId,
                                                serial |-> gameRooms[roomId].serial]}
                    /\ emitted' = {}
               ELSE /\ pending' = pending \cup {EndTimer(roomId, gameRooms[roomId].serial)}
                    /\ emitted' = EmitRoom(roomId, "game_ended", 0)
            /\ last' = Req("game_end", c, roomId, 0, "ok")
            /\ UNCHANGED <<sockets, playerSockets, joined, nextSerial>>

\* game_end after storage.updateGameStatus and storage.updateGameState settled
\* (dbOk) or one of them threw into the catch of lines 597-599
EndPersisted(t, dbOk) ==
    /\ t \in pending /\ t.kind = "end"
    /\ pending' = (pending \ {t}) \cup {EndTimer(t.code, t.serial)}
    /\ emitted' = EmitRoom(t.code, "game_ended", 0)
    /\ last' = Req(IF dbOk THEN "end_persisted" ELSE "end_failed",
                   NoConn, t.code, 0, "ok")
    /\ UNCHANGED <<sockets, playerSockets, gameRooms, joined, nextSerial>>

\* the 60 second timer of game_end fires
EndTimerFires(t) ==
    /\ t \in pending /\ t.kind = "endTimer"
    /\ gameRooms' = Delete(t.code)
    /\ pending' = pending \ {t}
    /\ emitted' = {}
    /\ last' = Req("end_timer", NoConn, t.code, 0, "ok")
    /\ UNCHANGED <<sockets, playerSockets, joined, nextSerial>>

\* the client's leaveRoom: socket.emit('leave_room', { roomId }); the server
\* registers no listener for that event, so the packet is dropped
LeaveRoom(c, roomId) ==
    /\ Listening(c)
    /\ emitted' = {}
    /\ last' = Req("leave_room", c, roomId, 0, "ok")
    /\ UNCHANGED <<sockets, playerSockets, gameRooms, joined, nextSerial, pending>>

\* socket.on('disconnect')
Disconnect(c) ==
    /\ sockets[c] = "connected"
    /\ LET roomId == playerSockets[c].roomId IN
       IF playerSockets[c].present /\ roomId # NoCode /\ Has(roomId)
       THEN /\ emitted' = EmitOthers(c, roomId, "player_disconnected", 0)
            /\ IF gameRooms[roomId].status = "waiting"
               THEN gameRooms' = Delete(roomId) /\ pending' = pending
               ELSE IF gameRooms[roomId].status = "playing"
               THEN /\ gameRooms' = gameRooms
                    /\ pending' = pending \cup {[kind |-> "graceTimer", code |-> roomId,
                                                     serial |-> gameRooms[roomId].serial]}
               ELSE gameRooms' = gameRooms /\ pending' = pending
       ELSE emitted' = {} /\ gameRooms' = gameRooms /\ pending' = pending
    /\ playerSockets' = [playerSockets EXCEPT ![c] = NoPlayer]
    /\ sockets' = [sockets EXCEPT ![c] = "gone"]
    /\ joined' = [joined EXCEPT ![c] = {}]
    /\ last' = Req("disconnect", c, playerSockets[c].roomId, 0, "ok")
    /\ UNCHANGED nextSerial

\* the 5 minute timer without the status test of line 637
GraceTimerFiresAnyStatus(t) ==
    /\ t \in pending /\ t.kind = "graceTimer"
    /\ IF Has(t.code)
       THEN IF gameRooms[t.code].gameId # NoGame
            THEN /\ pending' = (pending \ {t}) \cup
                                {[kind |-> "abandon", code |-> t.code,
                                  serial |-> gameRooms[t.code].serial]}
                 /\ gameRooms' = gameRooms
            ELSE /\ pending' = pending \ {t}
                 /\ gameRooms' = Delete(t.code)
       ELSE /\ pending' = pending \ {t}
            /\ gameRooms' = gameRooms
    /\ emitted' = {}
    /\ last' = Req("grace_timer", NoConn, t.code, 0, "ok")
    /\ UNCHANGED <<sockets, playerSockets, joined, nextSerial>>

\* the 5 minute timer of disconnect fires, up to its await
GraceTimerFires(t) ==
    /\ t \in pending /\ t.kind = "graceTimer"
    /\ IF Has(t.code) /\ gameRooms[t.code].status = "playing"
       THEN IF gameRooms[t.code].gameId # NoGame
            THEN /\ pending' = (pending \ {t}) \cup
                                {[kind |-> "abandon", code |-> t.code,
                                  serial |-> gameRooms[t.code].serial]}
                 /\ gameRooms' = gameRooms
            ELSE /\ pending' = pending \ {t}
                 /\ gameRooms' = Delete(t.code)
       ELSE /\ pending' = pending \ {t}
            /\ gameRooms' = gameRooms
    /\ emitted' = {}
    /\ last' = Req("grace_timer", NoConn, t.code, 0, "ok")
    /\ UNCHANGED <<sockets, playerSockets, joined, nextSerial>>

\* the grace timer after storage.updateGameStatus(gameId, 'abandoned') settled
AbandonPersisted(t) ==
    /\ t \in pending /\ t.kind = "abandon"
    /\ gameRooms' = Delete(t.code)
    /\ pending' = pending \ {t}
    /\ emitted' = {}
    /\ last' = Req("abandon_persisted", NoConn, t.code, 0, "ok")
    /\ UNCHANGED <<sockets, playerSockets, joined, nextSerial>>

\* cleanupStaleRooms without the status test of line 352
SweepAnyStatus ==
    /\ gameRooms' = [k \in Codes |->
           IF Has(k) /\ gameRooms[k].expired THEN NoRoom ELSE gameRooms[k]]
    /\ emitted' = {}
    /\ last' = Req("sweep", NoConn, NoCode, 0, "ok")
    /\ UNCHANGED <<sockets, playerSockets, joined, nextSerial, pending>>

\* cleanupStaleRooms, run by setInterval: expired is
\* now - room.createdAt.getTime() > STALE_ROOM_TIMEOUT
Sweep ==
    /\ gameRooms' = [k \in Codes |->
           IF Has(k) /\ gameRooms[k].expired /\ gameRooms[k].status # "playing"
           THEN NoRoom ELSE gameRooms[k]]
    /\ emitted' = {}
    /\ last' = Req("sweep", NoConn, NoCode, 0, "ok")
    /\ UNCHANGED <<sockets, playerSockets, joined, nextSerial, pending>>

\* time passes: the rooms constructed no later than room object s are now
\* older than STALE_ROOM_TIMEOUT (a room never outlives an older one's age)
TimePasses(s) ==
    /\ \E k \in Codes : Has(k) /\ gameRooms[k].serial <= s /\ ~gameRooms[k].expired
    /\ gameRooms' = [k \in Codes |->
           IF Has(k) /\ gameRooms[k].serial <= s
           THEN [gameRooms[k] EXCEPT !.expired = TRUE] ELSE gameRooms[k]]
    /\ emitted' = {}
    /\ last' = Req("time", NoConn, NoCode, 0, "ok")
    /\ UNCHANGED <<sockets, playerSockets, joined, nextSerial, pending>>

\* connections, room creation and joining, disconnects, timers and the sweep;
\* gen is the set of codes generateRoomId returns, ids the set of roomIds the
\* clients name in their requests
Lobby(gen, ids) ==
    \/ \E c \in Conns : Connect(c)
    \/ \E c \in Conns, w \in BOOLEAN, k \in gen : CreateRoom(c, w, k)
    \/ \E c \in Conns, k \in ids \cup {NoCode} : JoinRoom(c, k)
    \/ \E t \in pending, ok \in BOOLEAN : JoinCreated(t, ok)
    \/ \E c \in Conns : Disconnect(c)
    \/ \E t \in pending : GraceTimerFires(t)
    \/ \E t \in pending : AbandonPersisted(t)
    \/ Sweep
    \/ \E s \in 1..MaxRooms : TimePasses(s)

\* moves and game ends
Play(ids) ==
    \/ \E c \in Conns, k \in ids, n \in 0..MaxMoves, g \in GameStates :
           MakeMove(c, k, n, g)
    \/ \E t \in pending, ok \in BOOLEAN : MovePersisted(t, ok)
    \/ \E c \in Conns, k \in ids, w \in WinnerInputs, g \in GameStates :
           GameEnd(c, k, w, g)
    \/ \E t \in pending, ok \in BOOLEAN : EndPersisted(t, ok)
    \/ \E t \in pending : EndTimerFires(t)

\* the whole server
Next ==
    /\ \/ Lobby(Codes, Codes)
       \/ Play(Codes)
       \/ \E c \in Conns, k \in Codes : LeaveRoom(c, k)
    /\ UNCHANGED outsideServer

Spec == Init /\ [][Next]_vars

\* a step that leaves at most cap awaited calls and armed timers outstanding
\* and at most rooms room objects constructed
Within(cap, rooms) ==
    /\ Cardinality(pending') <= cap /\ nextSerial' <= rooms + 1
    /\ UNCHANGED outsideServer

\* the server while generateRoomId keeps returning one code and the clients
\* name that code: the life of the rooms constructed under one code
NextRoom == (Lobby({1}, {1}) \/ Play({1})) /\ Within(RoomPending, RoomObjects)

SpecRoom == Init /\ [][NextRoom]_vars

\* the lobby of one code with clients that leave their room
NextLeave ==
    /\ Lobby({1}, {1}) \/ \E c \in Conns : LeaveRoom(c, 1)
    /\ Within(LobbyPending, RoomObjects)

SpecLeave == Init /\ [][NextLeave]_vars

\* the lobby of one code whose games are ended by game_end: rooms that
\* follow one another under the code
NextReuse ==
    /\ \/ Lobby({1}, {1})
       \/ \E c \in Conns, w \in WinnerInputs, g \in GameStates : GameEnd(c, 1, w, g)
       \/ \E t \in pending, ok \in BOOLEAN : EndPersisted(t, ok)
       \/ \E t \in pending : EndTimerFires(t)
    /\ Within(LobbyPending, MaxRooms)

SpecReuse == Init /\ [][NextReuse]_vars

\* the server while no client submits a move or ends a game
NextLobby == Lobby(Codes, Codes) /\ Within(LobbyPending, MaxRooms)

SpecLobby == Init /\ [][NextLobby]_vars

\* ------------------------------------------------ the client: local game
\* the positions a game is taken up from: both kings on their home squares, a
\* white queen and a black pawn on its start square, after earlier battles
\* that left the black king and the pawn at full or at low health
KingHealths == {1, getPieceStats("king").maxHealth}

PawnHealths == {3, getPieceStats("pawn").maxHealth}

QueenSquares == {Pos(1, 4), Pos(4, 3)}

StartBoard(queenSquare, kingHealth, pawnHealth) ==
    [sq \in Squares |->
        IF sq = Pos(7, 4)
        THEN NewPiece(PieceId(sq), "king", "white", getPieceStats("king").maxHealth)
        ELSE IF sq = Pos(0, 4) THEN NewPiece(PieceId(sq), "king", "black", kingHealth)
        ELSE IF sq = Pos(1, 0) THEN NewPiece(PieceId(sq), "pawn", "black", pawnHealth)
        ELSE IF sq = queenSquare
        THEN [NewPiece(PieceId(Pos(7, 3)), "queen", "white",
                       getPieceStats("queen").maxHealth)
                 EXCEPT !.hasMoved = TRUE]
        ELSE NoPiece]

\* the store after setGameMode('pvp') with a game in progress
InitChess ==
    /\ sockets = [c \in Conns |-> "new"]
    /\ playerSockets = [c \in Conns |-> NoPlayer]
    /\ gameRooms = [k \in Codes |-> NoRoom]
    /\ joined = [c \in Conns |-> {}]
    /\ nextSerial = 1
    /\ pending = {}
    /\ emitted = {}
    /\ last = Req("init", NoConn, NoCode, 0, "ok")
    /\ useMultiplayer = InitialConnection
    /\ db = InitialDatabase
    /\ \E q \in QueenSquares, kh \in KingHealths, ph \in PawnHealths :
          useChessGame = [InitialStore EXCEPT !.board = StartBoard(q, kh, ph),
                                              !.gamePhase = "playing",
                                              !.gameMode = "pvp"]

\* handleSquareClick(row, col); a click that starts a battle draws the two rolls
handleSquareClick(row, col, attackerRoll, defenderRoll) ==
    /\ useChessGame.moveHistory < MaxPlies
    /\ useChessGame' = ClickResult(useChessGame, row, col, attackerRoll, defenderRoll)
    /\ UNCHANGED outsideGame

\* the store action resolveBattle
resolveBattle ==
    /\ useChessGame' = BattleApplied(useChessGame)
    /\ UNCHANGED outsideGame

\* a setTimeout callback of resolveBattle runs: awardXP(pieceId, amount)
awardXP(t) ==
    /\ t \in useChessGame.timers /\ t.kind = "awardXP"
    /\ useChessGame' = XPAwarded([useChessGame EXCEPT !.timers = @ \ {t}],
                                 t.pieceId, t.amount)
    /\ UNCHANGED outsideGame

\* the setTimeout callback of awardXP runs: set({ levelUpQueue })
setLevelUpQueue(t) ==
    /\ t \in useChessGame.timers /\ t.kind = "levelUpQueue"
    /\ useChessGame' = [useChessGame EXCEPT !.timers = @ \ {t},
                                            !.levelUpQueue = t.queue]
    /\ UNCHANGED outsideGame

\* the store action allocateAttributes, called by the level-up dialog for a
\* piece that has unspent points
allocateAttributes(pieceId, allocation) ==
    /\ \E sq \in Squares : /\ useChessGame.board[sq].id = pieceId
                            /\ useChessGame.board[sq].unspentPoints > 0
                            /\ allocation \in Allocations(useChessGame.board[sq].unspentPoints)
    /\ useChessGame' = AttributesAllocated(useChessGame, pieceId, allocation)
    /\ UNCHANGED outsideGame

\* the store action performHeal
performHeal(bishopPosition, targetPosition) ==
    /\ useChessGame.moveHistory < MaxPlies
    /\ useChessGame' = HealPerformed(useChessGame, bishopPosition, targetPosition)
    /\ UNCHANGED outsideGame

\* the store action promotePawn
promotePawn(pieceType) ==
    /\ useChessGame' = PawnPromoted(useChessGame, pieceType)
    /\ UNCHANGED outsideGame

NextChess ==
    \/ \E sq \in Squares, r1 \in Rolls, r2 \in Rolls :
           handleSquareClick(sq.row, sq.col, r1, r2)
    \/ resolveBattle
    \/ \E t \in useChessGame.timers : awardXP(t)
    \/ \E t \in useChessGame.timers : setLevelUpQueue(t)

SpecChess == InitChess /\ [][NextChess]_vars

\* the positions a game with experience, healing and promotion is taken up
\* from: a white pawn one step from promotion beside a black knight, and a
\* white bishop that may have reached level 2 with its point unspent
KnightHealths == {1, getPieceStats("knight").maxHealth}

PawnXPs == {0, 40}

BishopLevels == {1, 2}

RpgBoard(knightHealth, pawnHealth, pawnXP, bishopLevel) ==
    [sq \in Squares |->
        IF sq = Pos(7, 4)
        THEN NewPiece(PieceId(sq), "king", "white", getPieceStats("king").maxHealth)
        ELSE IF sq = Pos(0, 4)
        THEN NewPiece(PieceId(sq), "king", "black", getPieceStats("king").maxHealth)
        ELSE IF sq = Pos(0, 1) THEN NewPiece(PieceId(sq), "knight", "black", knightHealth)
        ELSE IF sq = Pos(1, 0)
        THEN [NewPiece(PieceId(Pos(6, 0)), "pawn", "white", pawnHealth)
                 EXCEPT !.xp = pawnXP, !.hasMoved = TRUE]
        ELSE IF sq = Pos(3, 3)
        THEN [NewPiece(PieceId(Pos(7, 2)), "bishop", "white",
                       getPieceStats("bishop").maxHealth)
                 EXCEPT !.level = bishopLevel, !.unspentPoints = bishopLevel - 1,
                        !.hasMoved = TRUE]
        ELSE NoPiece]

InitRpg ==
    /\ sockets = [c \in Conns |-> "new"]
    /\ playerSockets = [c \in Conns |-> NoPlayer]
    /\ gameRooms = [k \in Codes |-> NoRoom]
    /\ joined = [c \in Conns |-> {}]
    /\ nextSerial = 1
    /\ pending = {}
    /\ emitted = {}
    /\ last = Req("init", NoConn, NoCode, 0, "ok")
    /\ useMultiplayer = InitialConnection
    /\ db = InitialDatabase
    /\ \E kh \in KnightHealths, ph \in PawnHealths, px \in PawnXPs, bl \in BishopLevels :
          useChessGame = [InitialStore EXCEPT
                             !.board = RpgBoard(kh, ph, px, bl),
                             !.levelUpQueue = IF bl > 1 THEN {PieceId(Pos(7, 2))} ELSE {},
                             !.gamePhase = "playing",
                             !.gameMode = "pvp"]

\* the pieces on the board
Occupied == {sq \in Squares : useChessGame.board[sq] # NoPiece}

NextRpg ==
    \/ \E sq \in Squares, r1 \in Rolls, r2 \in Rolls :
           handleSquareClick(sq.row, sq.col, r1, r2)
    \/ resolveBattle
    \/ \E t \in useChessGame.timers : awardXP(t)
    \/ \E t \in useChessGame.timers : setLevelUpQueue(t)
    \/ \E sq \in Occupied, a \in Allocations(MaxPoints) :
           allocateAttributes(useChessGame.board[sq].id, a)
    \/ \E b \in Occupied, t \in Occupied : performHeal(b, t)
    \/ \E type \in PromotionPieceType : promotePawn(type)

SpecRpg == InitRpg /\ [][NextRpg]_vars

\* the endgames: the black king alone in its corner, the white king on its
\* home square or beside the corner, and the white queen two files or a long
\* diagonal away, white to move
MateKingSquares == {Pos(7, 4), Pos(2, 1)}

MateQueenSquares == {Pos(1, 4), Pos(4, 4)}

MateBoard(kingSquare, queenSquare) ==
    [sq \in Squares |->
        IF sq = kingSquare
        THEN [NewPiece(PieceId(Pos(7, 4)), "king", "white",
                       getPieceStats("king").maxHealth)
                 EXCEPT !.hasMoved = kingSquare # Pos(7, 4)]
        ELSE IF sq = Pos(0, 0)
        THEN [NewPiece(PieceId(Pos(0, 4)), "king", "black",
                       getPieceStats("king").maxHealth)
                 EXCEPT !.hasMoved = TRUE]
        ELSE IF sq = queenSquare
        THEN [NewPiece(PieceId(Pos(7, 3)), "queen", "white",
                       getPieceStats("queen").maxHealth)
                 EXCEPT !.hasMoved = TRUE]
        ELSE NoPiece]

InitMate ==
    /\ sockets = [c \in Conns |-> "new"]
    /\ playerSockets = [c \in Conns |-> NoPlayer]
    /\ gameRooms = [k \in Codes |-> NoRoom]
    /\ joined = [c \in Conns |-> {}]
    /\ nextSerial = 1
    /\ pending = {}
    /\ emitted = {}
    /\ last = Req("init", NoConn, NoCode, 0, "ok")
    /\ useMultiplayer = InitialConnection
    /\ db = InitialDatabase
    /\ \E k \in MateKingSquares, q \in MateQueenSquares :
          useChessGame = [InitialStore EXCEPT !.board = MateBoard(k, q),
                                              !.gamePhase = "playing",
                                              !.gameMode = "pvp"]

\* no battle of these games defeats a piece, so no award is ever scheduled
NextMate ==
    \/ \E sq \in Squares, r1 \in Rolls, r2 \in Rolls :
           handleSquareClick(sq.row, sq.col, r1, r2)
    \/ resolveBattle

SpecMate == InitMate /\ [][NextMate]_vars

\* the battles: an attacker already selected beside a defender, each of three
\* types, at full or at low health, the attacker with or without points
\* spent on attack, and the die showing any of its faces
DieFaces == 1..D20

AttackerTypes == {"pawn", "queen", "king"}

DefenderTypes == {"pawn", "knight", "queen"}

AttackerHealths == {3, 4, getPieceStats("pawn").maxHealth}

DefenderHealths == {1, getPieceStats("pawn").maxHealth}

AttackMods == {0, 2}

AttackerSquare == Pos(4, 3)

DefenderSquare == Pos(3, 4)

BattleBoard(attackerType, attackerHealth, attackMod, defenderType, defenderHealth) ==
    [sq \in Squares |->
        IF sq = AttackerSquare
        THEN [NewPiece(PieceId(Pos(6, 3)), attackerType, "white", attackerHealth)
                 EXCEPT !.mods.attack = attackMod, !.level = 1 + attackMod,
                        !.hasMoved = TRUE]
        ELSE IF sq = DefenderSquare
        THEN [NewPiece(PieceId(Pos(1, 4)), defenderType, "black", defenderHealth)
                 EXCEPT !.hasMoved = TRUE]
        ELSE NoPiece]

InitBattle ==
    /\ sockets = [c \in Conns |-> "new"]
    /\ playerSockets = [c \in Conns |-> NoPlayer]
    /\ gameRooms = [k \in Codes |-> NoRoom]
    /\ joined = [c \in Conns |-> {}]
    /\ nextSerial = 1
    /\ pending = {}
    /\ emitted = {}
    /\ last = Req("init", NoConn, NoCode, 0, "ok")
    /\ useMultiplayer = InitialConnection
    /\ db = InitialDatabase
    /\ \E at \in AttackerTypes, ah \in AttackerHealths, am \in AttackMods,
          dt \in DefenderTypes, dh \in DefenderHealths :
          LET board == BattleBoard(at, ah, am, dt, dh) IN
          useChessGame = [InitialStore EXCEPT
                             !.board = board,
                             !.selectedSquare = AttackerSquare,
                             !.validMoves = getValidMoves(board, AttackerSquare),
                             !.gamePhase = "playing",
                             !.gameMode = "pvp"]

\* the click on the defender, which calls battleSystem.resolveBattle
NextBattle ==
    \E r1 \in DieFaces, r2 \in DieFaces :
        /\ useChessGame.gamePhase = "playing"
        /\ handleSquareClick(DefenderSquare.row, DefenderSquare.col, r1, r2)

SpecBattle == InitBattle /\ [][NextBattle]_vars

\* the heals: each side has a bishop, white's at one of the first levels,
\* and white a damaged or healthy piece with or without a point put into its
\* max health
HealerLevels == {1, 2, 3}

TargetTypes == {"pawn", "knight", "rook"}

TargetDamage == {0, 1, 13, 20}

MaxHealthMods == {0, 1}

HealBoard(healerLevel, targetType, damage, maxHealthMod) ==
    [sq \in Squares |->
        CASE sq = Pos(7, 4) -> NewPiece(PieceId(sq), "king", "white",
                                        getPieceStats("king").maxHealth)
          [] sq = Pos(0, 4) -> NewPiece(PieceId(sq), "king", "black",
                                        getPieceStats("king").maxHealth - 1)
          [] sq = Pos(7, 2) -> [NewPiece(PieceId(sq), "bishop", "white",
                                         getPieceStats("bishop").maxHealth)
                                   EXCEPT !.level = healerLevel]
          [] sq = Pos(0, 2) -> NewPiece(PieceId(sq), "bishop", "black",
                                        getPieceStats("bishop").maxHealth)
          [] sq = Pos(5, 1) -> [NewPiece(PieceId(Pos(7, 1)), targetType, "white",
                                         getPieceStats(targetType).maxHealth
                                             + maxHealthMod - damage)
                                   EXCEPT !.mods.maxHealth = maxHealthMod,
                                          !.level = 1 + maxHealthMod,
                                          !.hasMoved = TRUE]
          [] OTHER -> NoPiece]

InitHeal ==
    /\ sockets = [c \in Conns |-> "new"]
    /\ playerSockets = [c \in Conns |-> NoPlayer]
    /\ gameRooms = [k \in Codes |-> NoRoom]
    /\ joined = [c \in Conns |-> {}]
    /\ nextSerial = 1
    /\ pending = {}
    /\ emitted = {}
    /\ last = Req("init", NoConn, NoCode, 0, "ok")
    /\ useMultiplayer = InitialConnection
    /\ db = InitialDatabase
    /\ \E l \in HealerLevels, type \in TargetTypes, d \in TargetDamage,
          m \in MaxHealthMods :
          useChessGame = [InitialStore EXCEPT
                             !.board = HealBoard(l, type, d, m),
                             !.gamePhase = "playing",
                             !.gameMode = "pvp"]

NextHeal ==
    \E b \in Occupied, t \in Occupied : performHeal(b, t)

SpecHeal == InitHeal /\ [][NextHeal]_vars

\* the awards: a knight of one of the first levels, its experience anywhere
\* below the threshold of the level, and one or two awards scheduled for it,
\* of no experience or of what calculateXPAward gives for some defeated piece
XPLevels == {1, 2}

XPAmounts ==
    {0} \cup {calculateXPAward(winnerLevel, defeatedLevel, type) :
                 winnerLevel \in 1..3, defeatedLevel \in 1..3,
                 type \in PromotionPieceType \cup {"pawn", "king"}}

XPBoard(level, xp) ==
    [sq \in Squares |->
        CASE sq = Pos(7, 4) -> NewPiece(PieceId(sq), "king", "white",
                                        getPieceStats("king").maxHealth)
          [] sq = Pos(0, 4) -> NewPiece(PieceId(sq), "king", "black",
                                        getPieceStats("king").maxHealth)
          [] sq = Pos(5, 2) -> [NewPiece(PieceId(Pos(7, 1)), "knight", "white",
                                         getPieceStats("knight").maxHealth)
                                   EXCEPT !.level = level, !.xp = xp,
                                          !.unspentPoints = level - 1,
                                          !.hasMoved = TRUE]
          [] OTHER -> NoPiece]

InitXP ==
    /\ sockets = [c \in Conns |-> "new"]
    /\ playerSockets = [c \in Conns |-> NoPlayer]
    /\ gameRooms = [k \in Codes |-> NoRoom]
    /\ joined = [c \in Conns |-> {}]
    /\ nextSerial = 1
    /\ pending = {}
    /\ emitted = {}
    /\ last = Req("init", NoConn, NoCode, 0, "ok")
    /\ useMultiplayer = InitialConnection
    /\ db = InitialDatabase
    /\ \E level \in XPLevels, a1 \in XPAmounts, a2 \in XPAmounts :
          \E xp \in {0, xpToNext(level) \div 2, xpToNext(level) - 1} :
              useChessGame = [InitialStore EXCEPT
                                 !.board = XPBoard(level, xp),
                                 !.timers = {AwardTimer(PieceId(Pos(7, 1)), a1),
                                             AwardTimer(PieceId(Pos(7, 1)), a2)},
                                 !.gamePhase = "playing",
                                 !.gameMode = "pvp"]

NextXP ==
    \/ \E t \in useChessGame.timers : awardXP(t)
    \/ \E t \in useChessGame.timers : setLevelUpQueue(t)

SpecXP == InitXP /\ [][NextXP]_vars

\* the database when completeGame is called: one game between users 1 and 2,
\* or of user 1 against itself, active, abandoned or already marked completed
\* by game_end's updateGameStatus, with or without points, and users with or
\* without a stats row from earlier games
StoredPlayers == {<<1, 2>>, <<1, 1>>}

StoredStatuses == {"active", "abandoned", "completed"}

StoredPoints == {<<0, 0>>, <<40, 15>>}

EarlierStats ==
    [NewStats EXCEPT !.gamesPlayed = 3, !.gamesWon = 1, !.gamesLost = 2,
                     !.totalPoints = 45, !.level = computeLevel(45, 1)]

InitStorage ==
    /\ sockets = [c \in Conns |-> "new"]
    /\ playerSockets = [c \in Conns |-> NoPlayer]
    /\ gameRooms = [k \in Codes |-> NoRoom]
    /\ joined = [c \in Conns |-> {}]
    /\ nextSerial = 1
    /\ pending = {}
    /\ emitted = {}
    /\ last = Req("init", NoConn, NoCode, 0, "ok")
    /\ useChessGame = NoStore
    /\ useMultiplayer = InitialConnection
    /\ \E players \in StoredPlayers, status \in StoredStatuses, points \in StoredPoints,
          known \in SUBSET {1, 2} :
          db = [InitialDatabase EXCEPT
                   !.games[1] = GameRow(players[1], players[2], status,
                                        points[1], points[2]),
                   !.userStats = [u \in UserIds |->
                                     IF u \in known THEN EarlierStats ELSE NoStats]]

WinnerColors == {"white", "black", "draw"}

NextStorage ==
    \E id \in GameIdInputs, winnerColor \in WinnerColors, winnerUserId \in UserIds \cup {NoUser} :
        completeGame(id, winnerColor, winnerUserId)

SpecStorage == InitStorage /\ [][NextStorage]_vars

\* the connection store of one client
NextReconnect ==
    \/ connect
    \/ SocketConnect
    \/ SocketConnectError
    \/ SocketDisconnect
    \/ RetryTimerFires
    \/ disconnect

\* a timer that is due fires, and an opening socket connects or fails (its
\* timeout is 10 s)
SpecReconnect ==
    /\ Init
    /\ [][NextReconnect]_vars
    /\ WF_vars(RetryTimerFires)
    /\ WF_vars(SocketConnect \/ SocketConnectError)

\* what the event loop and the clock do on their own: armed timers fire, the
\* setInterval sweep runs, time passes, and awaited storage calls settle
TimersFire ==
    /\ \/ \E t \in pending : GraceTimerFires(t)
       \/ \E t \in pending : EndTimerFires(t)
    /\ UNCHANGED outsideServer

StorageSettles ==
    /\ \/ \E t \in pending, ok \in BOOLEAN : JoinCreated(t, ok)
       \/ \E t \in pending, ok \in BOOLEAN : MovePersisted(t, ok)
       \/ \E t \in pending, ok \in BOOLEAN : EndPersisted(t, ok)
       \/ \E t \in pending : AbandonPersisted(t)
    /\ UNCHANGED outsideServer

ClockRuns ==
    /\ WF_vars(TimersFire)
    /\ WF_vars(Sweep /\ UNCHANGED outsideServer)
    /\ WF_vars((\E s \in 1..MaxRooms : TimePasses(s)) /\ UNCHANGED outsideServer)

\* SpecLobby with LiveClients clients connecting and with timers, sweep and
\* storage calls that do not stall
NextLobbyLive ==
    NextLobby /\ \A c \in Conns : c > LiveClients => sockets'[c] = "new"

SpecLobbyLive ==
    Init /\ [][NextLobbyLive]_vars /\ ClockRuns /\ WF_vars(StorageSettles)

\* SpecRoom with timers and sweep running, while an awaited storage call may
\* stay unsettled forever
SpecRoomStall == SpecRoom /\ ClockRuns

\* ------------------------------------------------------------------ claims

\* the error event a rejected request of connection c produces
ErrorTo(c) == {Msg(c, "error", NoCode, 0)}

\* the step handled an event of the given kind ("make_move", "join_room", ...)
Handled(kind) == last'.kind = kind

\* C1: a make_move whose moveNumber is not room.moveCount + 1 is rejected with
\* an error to the sender, and the room (gameState, currentTurn, moveCount,
\* status and every other field) is left as it was.
C1_SequenceMismatchRejected ==
    [][(/\ Handled("make_move") /\ Has(last'.code)
        /\ last'.moveNumber # gameRooms[last'.code].moveCount + 1)
          => /\ last'.error # "ok"
             /\ emitted' = ErrorTo(last'.conn)
             /\ gameRooms'[last'.code] = gameRooms[last'.code]]_vars

\* C1 witness: the player on turn of a playing room sent a wrong move number
\* and was rejected by the sequence check.
C1_Witness ==
    /\ last.kind = "make_move" /\ last.error = "Invalid move sequence"
    /\ Has(last.code) /\ gameRooms[last.code].status = "playing"
    /\ gameRooms[last.code].moveCount = 1 /\ last.moveNumber = 1
    /\ gameRooms[last.code].black = last.conn

\* C2: a make_move carrying a moveNumber the room has already accepted
\* (1 <= moveNumber <= moveCount) is rejected and not reapplied: the room
\* keeps gameState, currentTurn and moveCount, no opponent_move is emitted and
\* no persistence call is started for it.
C2_ResubmissionNotReapplied ==
    [][(/\ Handled("make_move") /\ Has(last'.code)
        /\ last'.moveNumber >= 1
        /\ last'.moveNumber <= gameRooms[last'.code].moveCount)
          => /\ last'.error # "ok"
             /\ gameRooms'[last'.code].gameState = gameRooms[last'.code].gameState
             /\ gameRooms'[last'.code].currentTurn = gameRooms[last'.code].currentTurn
             /\ gameRooms'[last'.code].moveCount = gameRooms[last'.code].moveCount
             /\ \A m \in emitted' : m.ev # "opponent_move"
             /\ pending' = pending]_vars

\* C2 witness: white, whose move 1 was accepted, sent move 1 again and was
\* rejected; the room still shows move 1 applied once.
C2_Witness ==
    /\ last.kind = "make_move" /\ last.error # "ok" /\ last.moveNumber = 1
    /\ Has(last.code) /\ gameRooms[last.code].status = "playing"
    /\ gameRooms[last.code].moveCount = 1
    /\ gameRooms[last.code].currentTurn = "black"
    /\ gameRooms[last.code].white = last.conn
    /\ gameRooms[last.code].black # last.conn

\* C3: a make_move is accepted only if the room is playing and the sender holds
\* the slot of the side whose turn it is; so a participant out of turn and a
\* connection without a slot are rejected.
C3_AcceptedOnlyOnTurn ==
    [][(Handled("make_move") /\ last'.error = "ok")
          => /\ Has(last'.code) /\ gameRooms[last'.code].status = "playing"
             /\ \/ /\ gameRooms[last'.code].currentTurn = "white"
                   /\ gameRooms[last'.code].white = last'.conn
                \/ /\ gameRooms[last'.code].currentTurn = "black"
                   /\ gameRooms[last'.code].black = last'.conn]_vars

\* C3 witness: a connection that holds no slot of a playing room of two other
\* connections sent a make_move and was rejected.
C3_Witness ==
    /\ last.kind = "make_move" /\ last.error = "Not a player in this room"
    /\ Has(last.code) /\ gameRooms[last.code].status = "playing"
    /\ gameRooms[last.code].white # gameRooms[last.code].black
    /\ last.conn \notin {gameRooms[last.code].white, gameRooms[last.code].black}
\* the room under code k is the same GameRoom object before and after the step
SameRoom(k) ==
    /\ Has(k) /\ gameRooms'[k].status # "none"
    /\ gameRooms'[k].serial = gameRooms[k].serial

\* C4 (as claimed): the status of a room changes only from waiting to playing
\* and from playing to finished.
C4_StatusOnlyForward ==
    [][\A k \in Codes :
          (SameRoom(k) /\ gameRooms'[k].status # gameRooms[k].status)
              => \/ gameRooms[k].status = "waiting" /\ gameRooms'[k].status = "playing"
                 \/ gameRooms[k].status = "playing" /\ gameRooms'[k].status = "finished"]_vars

\* C5: a room starts with currentTurn white; currentTurn flips on every
\* accepted make_move and on no other step, so it is white exactly when
\* moveCount is even, and the accepted mover is always the side on turn.
TurnParity(room) == (room.currentTurn = "white") <=> (room.moveCount % 2 = 0)

C5_TurnAlternates ==
    [][\A k \in Codes :
          /\ gameRooms'[k].status # "none" => TurnParity(gameRooms'[k])
          /\ SameRoom(k) =>
                ((gameRooms'[k].currentTurn # gameRooms[k].currentTurn)
                    <=> (Handled("make_move") /\ last'.error = "ok" /\ last'.code = k))
          /\ (SameRoom(k) /\ Handled("make_move") /\ last'.error = "ok" /\ last'.code = k)
                => gameRooms[k].currentTurn = PlayerColor(last'.conn, k)]_vars

\* C5 witness: two moves were accepted in a room, white's and then black's,
\* and the turn is white's again.
C5_Witness ==
    /\ last.kind = "make_move" /\ last.error = "ok" /\ last.moveNumber = 2
    /\ Has(last.code) /\ gameRooms[last.code].moveCount = 2
    /\ gameRooms[last.code].currentTurn = "white"
    /\ gameRooms[last.code].black = last.conn

\* C6: moveCount is 0 in a new room, grows by exactly 1 on each accepted
\* make_move and is changed by no other step.
C6_MoveCountByOne ==
    [][\A k \in Codes :
          /\ (gameRooms'[k].status # "none" /\ ~SameRoom(k)) => gameRooms'[k].moveCount = 0
          /\ (SameRoom(k) /\ Handled("make_move") /\ last'.error = "ok" /\ last'.code = k)
                => gameRooms'[k].moveCount = gameRooms[k].moveCount + 1
          /\ (SameRoom(k) /\ ~(Handled("make_move") /\ last'.error = "ok" /\ last'.code = k))
                => gameRooms'[k].moveCount = gameRooms[k].moveCount]_vars

\* C6 witness: a game_end was accepted in a room after one move; moveCount is
\* still 1.
C6_Witness ==
    /\ last.kind = "game_end" /\ last.error = "ok"
    /\ Has(last.code) /\ gameRooms[last.code].status = "finished"
    /\ gameRooms[last.code].moveCount = 1

\* C7: join_room is accepted only for an existing room that is waiting and has
\* no black player; a join_room for a playing or finished room is rejected with
\* an error and changes nothing; the black slot of a room, once taken, is never
\* given to another join_room, so at most one join_room per room is accepted.
C7_JoinOnlyWaiting ==
    [][/\ (Handled("join_room") /\ last'.error = "ok")
            => /\ Has(last'.code) /\ gameRooms[last'.code].status = "waiting"
               /\ gameRooms[last'.code].black = NoConn
               /\ gameRooms'[last'.code].black = last'.conn
       /\ (/\ Handled("join_room") /\ Has(last'.code)
           /\ gameRooms[last'.code].status \in {"playing", "finished"})
            => /\ last'.error # "ok"
               /\ emitted' = ErrorTo(last'.conn)
               /\ UNCHANGED <<gameRooms, playerSockets, joined, pending>>
       /\ \A k \in Codes :
            (SameRoom(k) /\ gameRooms[k].black # NoConn)
                => gameRooms'[k].black = gameRooms[k].black]_vars

\* C7 witness: a third connection sent join_room for a room that two others
\* are playing in, and was rejected.
C7_Witness ==
    /\ last.kind = "join_room" /\ last.error = "Room is not available"
    /\ Has(last.code) /\ gameRooms[last.code].status = "playing"
    /\ last.conn \notin {gameRooms[last.code].white, gameRooms[last.code].black}

\* C8: the three writes of an accepted make_move happen in the step that
\* validated it: whenever a step changes gameState, currentTurn or moveCount
\* of a room through make_move, the room was playing, the sender was on turn,
\* the number was moveCount + 1, and after the step currentTurn is flipped and
\* moveCount is that number; no continuation writes any of the three later.
C8_MoveAppliedAtomically ==
    [][\A k \in Codes :
          (/\ SameRoom(k)
           /\ last'.kind \in {"make_move", "move_persisted", "move_failed"}
           /\ \/ gameRooms'[k].gameState # gameRooms[k].gameState
              \/ gameRooms'[k].currentTurn # gameRooms[k].currentTurn
              \/ gameRooms'[k].moveCount # gameRooms[k].moveCount
              \/ last'.error = "ok" /\ last'.kind = "make_move" /\ last'.code = k)
            => /\ last'.kind = "make_move" /\ last'.error = "ok" /\ last'.code = k
               /\ gameRooms[k].status = "playing"
               /\ gameRooms[k].currentTurn = PlayerColor(last'.conn, k)
               /\ last'.moveNumber = gameRooms[k].moveCount + 1
               /\ gameRooms'[k].moveCount = last'.moveNumber
               /\ gameRooms'[k].currentTurn # gameRooms[k].currentTurn
               /\ gameRooms'[k].gameState \in GameStates]_vars

\* C8 witness: a move was accepted while its persistence is still awaited;
\* the room already shows all three writes.
C8_Witness ==
    /\ last.kind = "make_move" /\ last.error = "ok"
    /\ \E t \in pending : t.kind = "move" /\ t.code = last.code /\ t.moveNumber = 1
    /\ gameRooms[last.code].moveCount = 1
    /\ gameRooms[last.code].currentTurn = "black"
    /\ gameRooms[last.code].gameState \in GameStates

\* C9: a rejected request sends exactly one error event, to the sender, and
\* nothing to any other connection, and leaves every room, every binding of a
\* connection to a room, every Socket.IO membership and every pending
\* continuation or timer as it was.
C9_RejectionHasNoEffect ==
    [][(last'.error # "ok")
          => /\ emitted' = ErrorTo(last'.conn)
             /\ UNCHANGED <<gameRooms, playerSockets, joined, sockets, pending, nextSerial>>]_vars

\* C9 witness: a game_end of a connection that holds no slot of a playing room
\* was rejected while the two players are connected.
C9_Witness ==
    /\ last.kind = "game_end" /\ last.error = "Not a player in this room"
    /\ Has(last.code) /\ gameRooms[last.code].status = "playing"
    /\ sockets[gameRooms[last.code].white] = "connected"
    /\ sockets[gameRooms[last.code].black] = "connected"
    /\ gameRooms[last.code].white # gameRooms[last.code].black

\* C10 (as claimed): no waiting room exists whose creator's connection is gone.
C10_NoOrphanedWaitingRoom ==
    \A k \in Codes :
        (Has(k) /\ gameRooms[k].status = "waiting")
            => sockets[gameRooms[k].white] = "connected"

\* connection c holds a slot of the room under code k
Participant(c, k) == Has(k) /\ c \in {gameRooms[k].white, gameRooms[k].black}

\* C11 (as claimed): when a participant of a playing room disconnects, the
\* other participant, if connected, is sent player_disconnected, the room stays
\* in the registry in that step, and a grace timer is armed for it.
C11_DisconnectNotifiesOpponent ==
    [][Handled("disconnect") =>
          \A k \in Codes :
             (Participant(last'.conn, k) /\ gameRooms[k].status = "playing")
                => /\ \A d \in Conns :
                        (Participant(d, k) /\ d # last'.conn /\ sockets[d] = "connected")
                            => Msg(d, "player_disconnected", k, 0) \in emitted'
                   /\ gameRooms'[k] = gameRooms[k]
                   /\ \E t \in pending' : t.kind = "graceTimer" /\ t.code = k]_vars

\* the GameRoom object with serial s is in the registry under code k
Live(k, s) == Has(k) /\ gameRooms[k].serial = s

\* a slot of the room under code k is held by a connection that is gone
LostParticipant(k) ==
    \E c \in Conns : Participant(c, k) /\ sockets[c] = "gone"

\* C12 (as claimed): with timers, sweep and storage calls running, every room
\* that finished or holds a participant whose connection is gone is eventually
\* removed from the registry.
C12_NoRoomLeak ==
    \A k \in Codes, s \in 1..MaxRooms :
        (Live(k, s) /\ (gameRooms[k].status = "finished" \/ LostParticipant(k)))
            ~> ~Live(k, s)

\* C13 (as claimed): what the participants receive for an accepted move does
\* not depend on the data the mover's client submitted: had the client sent any
\* other gameState (the board after its own battle resolution) with the same
\* roomId and moveNumber, the same opponent_move would have been broadcast.
C13_OutcomeIndependentOfClient ==
    [][(last'.kind \in {"make_move", "move_persisted", "move_failed"} /\ last'.error = "ok")
          => \A m \in emitted', g \in GameStates :
                m.ev = "opponent_move"
                    => Payload(m.to, m.ev, m.code, m.moveNumber, g) \in emitted']_vars

\* C16 (as claimed): once a room is finished, no make_move, join_room or
\* game_end is accepted for it, its gameState and status stay as they are, and
\* game_ended is not broadcast again once the removal timer of the first
\* broadcast is armed.
C16_FinishedIsTerminal ==
    [][\A k \in Codes :
          (SameRoom(k) /\ gameRooms[k].status = "finished")
              => /\ gameRooms'[k].status = "finished"
                 /\ gameRooms'[k].gameState = gameRooms[k].gameState
                 /\ ~(/\ last'.kind \in {"make_move", "join_room", "game_end"}
                      /\ last'.code = k /\ last'.error = "ok")
                 /\ EndTimer(k, gameRooms[k].serial) \in pending
                       => \A m \in emitted' : ~(m.ev = "game_ended" /\ m.code = k)]_vars

\* C17: a game_end is accepted only from a connection that holds a slot of the
\* room, and a well-formed one from either slot holder is accepted; an accepted
\* game_end sets status finished in the same step and game_ended goes to every
\* connected participant, in that step or when the awaited storage calls it
\* started have settled; a game_end from a connection without a slot gets an
\* error and changes no room.
C17_GameEndByParticipants ==
    [][/\ (Handled("game_end") /\ last'.error = "ok")
            => /\ Participant(last'.conn, last'.code)
               /\ gameRooms'[last'.code].status = "finished"
               /\ IF gameRooms[last'.code].gameId = NoGame
                  THEN \A d \in Conns :
                          (Participant(d, last'.code) /\ sockets[d] = "connected")
                             => Msg(d, "game_ended", last'.code, 0) \in emitted'
                  ELSE \E t \in pending' : t.kind = "end" /\ t.code = last'.code
       /\ (Handled("game_end") /\ Has(last'.code) /\ ~Participant(last'.conn, last'.code))
            => /\ last'.error # "ok"
               /\ emitted' = ErrorTo(last'.conn)
               /\ gameRooms' = gameRooms
       /\ (Handled("game_end") /\ Participant(last'.conn, last'.code) /\ last'.error # "ok")
            => last'.error = "Invalid game end data"
       /\ (last'.kind \in {"end_persisted", "end_failed"})
            => \A d \in Conns :
                  (Participant(d, last'.code) /\ sockets[d] = "connected")
                     => Msg(d, "game_ended", last'.code, 0) \in emitted']_vars

\* C17 witness: black ended a game both players are connected to; the room is
\* finished and game_ended went to white and to black.
C17_Witness ==
    /\ last.kind = "game_end" /\ last.error = "ok"
    /\ Has(last.code) /\ gameRooms[last.code].status = "finished"
    /\ gameRooms[last.code].black = last.conn
    /\ gameRooms[last.code].white # last.conn
    /\ gameRooms[last.code].moveCount = 1
    /\ Msg(gameRooms[last.code].white, "game_ended", last.code, 0) \in emitted
    /\ Msg(gameRooms[last.code].black, "game_ended", last.code, 0) \in emitted

\* the members of the Socket.IO room code that are sent event ev in this step
Receivers(code, ev) == {m.to : m \in {x \in emitted' : x.ev = ev /\ x.code = code}}

\* the sockets in the Socket.IO room code
Members(code) == {d \in Conns : code \in joined[d]}

\* the room object the handler resumed in this step holds, while it is still
\* the one registered under its code
ResumedRoom(k) == \E t \in pending \ pending' : t.code = k /\ Live(k, t.serial)

\* C18: when createGame (join), updateGameState / addGameMove (move) or
\* updateGameStatus / updateGameState (game end) fails, no room changes, so the
\* joined, moved or finished room keeps, as long as it is registered, what the
\* handler applied before the call; the game_start, opponent_move and
\* move_accepted, or game_ended broadcast is sent as after a success, and no
\* error event is sent.
C18_PersistenceFailureHarmless ==
    [][(last'.kind \in {"join_failed", "move_failed", "end_failed"})
          => /\ gameRooms' = gameRooms
             /\ \A m \in emitted' : m.ev # "error"
             /\ last'.kind = "join_failed"
                   => /\ Receivers(last'.code, "game_start") = Members(last'.code)
                      /\ ResumedRoom(last'.code) => gameRooms[last'.code].black # NoConn
             /\ last'.kind = "move_failed"
                   => /\ Receivers(last'.code, "opponent_move")
                             = Members(last'.code) \ {last'.conn}
                      /\ sockets[last'.conn] = "connected"
                             => Receivers(last'.code, "move_accepted") = {last'.conn}
                      /\ ResumedRoom(last'.code)
                             => gameRooms[last'.code].moveCount >= last'.moveNumber
             /\ last'.kind = "end_failed"
                   => /\ Receivers(last'.code, "game_ended") = Members(last'.code)
                      /\ ResumedRoom(last'.code)
                             => gameRooms[last'.code].status = "finished"]_vars

\* C18 witness: the storage calls of white's first move failed; the room still
\* shows the move and black received opponent_move, white move_accepted.
C18_Witness ==
    /\ last.kind = "move_failed" /\ last.moveNumber = 1
    /\ Has(last.code) /\ gameRooms[last.code].moveCount = 1
    /\ gameRooms[last.code].currentTurn = "black"
    /\ gameRooms[last.code].white = last.conn
    /\ gameRooms[last.code].black # last.conn
    /\ \E m \in emitted : m.ev = "opponent_move" /\ m.to = gameRooms[last.code].black
    /\ \E m \in emitted : m.ev = "move_accepted" /\ m.to = last.conn

\* C19 (as claimed): with timers and sweep running and storage calls that may
\* never settle, an accepted make_move of a connection that stays connected is
\* eventually acknowledged with move_accepted (which is emitted together with
\* the opponent_move broadcast).
C19_MoveBroadcastRegardless ==
    \A c \in Conns, n \in 1..MaxMoves :
        (last.kind = "make_move" /\ last.error = "ok" /\ last.conn = c /\ last.moveNumber = n)
            ~> \/ sockets[c] # "connected"
               \/ \E m \in emitted : m.ev = "move_accepted" /\ m.to = c /\ m.moveNumber = n

\* C20 (as claimed): every accepted make_move starts the storage calls that
\* append it to the move history of the room's game record, with its
\* moveNumber and its player.
C20_AcceptedMovePersisted ==
    [][(Handled("make_move") /\ last'.error = "ok")
          => \E t \in pending' :
                /\ t.kind = "move" /\ t.code = last'.code
                /\ t.conn = last'.conn /\ t.moveNumber = last'.moveNumber]_vars

\* C14 (as claimed): resolveBattle is deterministic: whenever a click starts a
\* battle, any other invocation for the same attacker and defender, whatever
\* Math.random() returns in it, yields the rolls, damage, healths and result of
\* the invocation that was made.
C14_BattleDeterministic ==
    [][(useChessGame.gamePhase = "playing" /\ useChessGame'.gamePhase = "battle")
          => LET b == useChessGame'.battleState IN
             \A r1 \in Rolls, r2 \in Rolls :
                battleResolve(b.originalAttacker, b.originalDefender, r1, r2)
                  = battleResolve(b.originalAttacker, b.originalDefender,
                                  b.attackerRoll, b.defenderRoll)]_vars

\* C15 (as claimed): a side whose king is no longer on the board has lost: the
\* game is ended and the other side is the winner.
C15_KingDefeatEndsGame ==
    \A color \in Colors :
        findKing(useChessGame.board, color) = NoSquare
            => /\ useChessGame.gamePhase = "ended"
               /\ useChessGame.winner = Other(color)

\* the step ran the emits that end an accepted make_move: the handler itself
\* when the room has no game record, else its continuation
MoveAnnounced ==
    \/ last'.kind \in {"move_persisted", "move_failed"}
    \/ last'.kind = "make_move" /\ last'.error = "ok" /\ pending' = pending

\* C21: when an accepted make_move is announced, every other connected
\* participant of the room is sent opponent_move, the sender is sent no
\* opponent_move, and move_accepted goes to the sender (if still connected) and
\* to nobody else.
C21_MoveAnnouncedToOpponentOnly ==
    [][MoveAnnounced
          => /\ \A d \in Conns :
                  (Participant(d, last'.code) /\ d # last'.conn /\ sockets[d] = "connected")
                      => \E m \in emitted' : /\ m.to = d /\ m.ev = "opponent_move"
                                             /\ m.code = last'.code
                                             /\ m.moveNumber = last'.moveNumber
             /\ \A m \in emitted' : m.ev = "opponent_move" => m.to # last'.conn
             /\ \A m \in emitted' : m.ev = "move_accepted" => m.to = last'.conn
             /\ sockets[last'.conn] = "connected"
                  => \E m \in emitted' : /\ m.to = last'.conn /\ m.ev = "move_accepted"
                                         /\ m.moveNumber = last'.moveNumber]_vars

\* C21 witness: black's move 2 was persisted and announced: white was sent
\* opponent_move, black move_accepted, both connected.
C21_Witness ==
    /\ last.kind = "move_persisted" /\ last.moveNumber = 2
    /\ Has(last.code) /\ gameRooms[last.code].black = last.conn
    /\ gameRooms[last.code].white # last.conn
    /\ \E m \in emitted : m.ev = "opponent_move" /\ m.to = gameRooms[last.code].white
    /\ \E m \in emitted : m.ev = "move_accepted" /\ m.to = last.conn
    /\ ~\E m \in emitted : m.ev = "opponent_move" /\ m.to = last.conn

\* the events a client sends that can write the room registry
RoomEvents == {"create_room", "join_room", "make_move", "game_end"}

\* C22: a create_room, join_room, make_move or game_end is handled only for a
\* connected socket, and it changes the room registry only if that socket is
\* registered in playerSockets and the request was accepted; nothing is
\* handled for a socket that never authenticated or has disconnected.
C22_OnlyAuthenticatedAct ==
    [][(last'.kind \in RoomEvents)
          => /\ sockets[last'.conn] = "connected"
             /\ gameRooms' # gameRooms
                  => playerSockets[last'.conn].present /\ last'.error = "ok"]_vars

\* C22 witness: an authenticated connection created a room while another
\* connection has disconnected and a third never authenticated.
C22_Witness ==
    /\ last.kind = "create_room" /\ last.error = "ok"
    /\ Has(last.code) /\ gameRooms[last.code].white = last.conn
    /\ playerSockets[last.conn].present
    /\ \E d \in Conns : sockets[d] = "gone" /\ ~playerSockets[d].present
    /\ \E d \in Conns : sockets[d] = "new" /\ ~playerSockets[d].present

\* C23 (as claimed): an accepted create_room gets a code under which no room
\* is registered, and leaves every registered room as it was.
C23_CreateNeverReplaces ==
    [][(Handled("create_room") /\ last'.error = "ok")
          => /\ ~Has(last'.code)
             /\ \A k \in Codes : Has(k) => gameRooms'[k] = gameRooms[k]]_vars

\* C24 (as claimed): when the creator of a waiting room sends leave_room for
\* it, the room is gone from the registry after that step.
C24_LeaveDeletesWaitingRoom ==
    [][(/\ Handled("leave_room") /\ Has(last'.code)
        /\ gameRooms[last'.code].status = "waiting"
        /\ gameRooms[last'.code].white = last'.conn)
          => ~(last'.code \in Codes /\ gameRooms'[last'.code].status # "none")]_vars

\* C25: a run of the sweep removes exactly the registered rooms that are older
\* than the stale timeout and not playing, and leaves every other room,
\* every playing room among them, as it was.
C25_SweepSparesPlaying ==
    [][Handled("sweep")
          => \A k \in Codes :
                IF Has(k) /\ gameRooms[k].expired /\ gameRooms[k].status # "playing"
                THEN gameRooms'[k] = NoRoom
                ELSE gameRooms'[k] = gameRooms[k]]_vars

\* C25 witness: a sweep has just run; a playing room older than the stale
\* timeout is still registered, and the other code, taken before, is free.
C25_Witness ==
    /\ last.kind = "sweep"
    /\ \E k \in Codes : /\ Has(k) /\ gameRooms[k].status = "playing"
                        /\ gameRooms[k].expired
                        /\ gameRooms[k].white # gameRooms[k].black
    /\ \E k \in Codes : ~Has(k) /\ nextSerial > MaxRooms

\* C26 (as claimed): a make_move of a participant of a playing room whose
\* moveNumber the room has already reached (1 <= moveNumber <= moveCount) is
\* rejected with 'Invalid move sequence', whoever is on turn.
C26_StaleIsSequenceError ==
    [][(/\ Handled("make_move") /\ Participant(last'.conn, last'.code)
        /\ gameRooms[last'.code].status = "playing"
        /\ last'.moveNumber >= 1
        /\ last'.moveNumber <= gameRooms[last'.code].moveCount)
          => last'.error = "Invalid move sequence"]_vars

\* C27: every piece on the board has at least 1 health and at most its
\* effective max health (base max health of its type plus its maxHealth
\* modifier), whatever battles, heals, attribute allocations, XP awards and
\* promotions were applied; no piece with health 0 stays on the board.
C27_HealthWithinBounds ==
    \A sq \in Squares :
        useChessGame.board[sq] # NoPiece
            => /\ useChessGame.board[sq].health >= 1
               /\ useChessGame.board[sq].health <= getMaxHealth(useChessGame.board[sq])

\* C27 witness: the pawn was promoted to a queen, and a piece that spent a
\* point on maxHealth stands at its raised max health.
C27_Witness ==
    /\ \E sq \in Squares : /\ useChessGame.board[sq].id = PieceId(Pos(6, 0))
                           /\ useChessGame.board[sq].type = "queen"
    /\ \E sq \in Squares : /\ useChessGame.board[sq].mods.maxHealth = 1
                           /\ useChessGame.board[sq].health
                                  = getPieceStats(useChessGame.board[sq].type).maxHealth + 1
    /\ useChessGame.moveHistory = MaxPlies

Healed == useChessGame'.moveHistory = useChessGame.moveHistory + 1

\* C29: a heal by a bishop of level L on a friendly target sets the target's
\* health to min(maxHealth, health + floor(maxHealth * min(0.75, 0.25 +
\* 0.05 * (L - 1)))), passes the turn to the other side, and changes no
\* other piece and no position on the board.
C29_HealFormula ==
    [][Healed =>
        /\ useChessGame'.currentPlayer # useChessGame.currentPlayer
        /\ useChessGame'.currentPlayer \in {"white", "black"}
        /\ \E b \in Squares, t \in Squares :
              LET bishop == useChessGame.board[b]
                  target == useChessGame.board[t]
                  maxHealth == getPieceStats(target.type).maxHealth
                                   + target.mods.maxHealth
                  hundredths == Min(75, 25 + 5 * (bishop.level - 1))
              IN  /\ bishop.type = "bishop"
                  /\ target # NoPiece
                  /\ bishop.color = target.color
                  /\ useChessGame'.board[t] =
                        [target EXCEPT !.health =
                            Min(maxHealth,
                                target.health + (maxHealth * hundredths) \div 100)]
                  /\ \A sq \in Squares \ {t} :
                        useChessGame'.board[sq] = useChessGame.board[sq]]_vars

\* C29 witness: the level-2 bishop healed the knight (max health 45) that
\* had 25 left: 13 points restored, a health no knight starts with, and it is
\* black's turn
C29_Witness ==
    /\ useChessGame.moveHistory = 1
    /\ useChessGame.currentPlayer = "black"
    /\ useChessGame.board[Pos(7, 2)].type = "bishop"
    /\ useChessGame.board[Pos(7, 2)].level = 2
    /\ useChessGame.board[Pos(5, 1)].type = "knight"
    /\ useChessGame.board[Pos(5, 1)].mods.maxHealth = 0
    /\ useChessGame.board[Pos(5, 1)].health = 25 + 13

\* the experience the thresholds of the levels from..to-1 take, with
\* 50 + 50 * (level - 1) for each level
ThresholdsCrossed(from, to) == 25 * (to * (to - 1) - from * (from - 1))

\* C30: an awardXP callback that runs returns, and leaves the piece it was
\* scheduled for with 0 <= xp < 50 + 50 * (level - 1); the level and the
\* unspent points rose by the same number, the thresholds of the levels
\* crossed plus the remaining xp equal the previous xp plus the amount, and
\* nothing else on the board changed.
C30_AwardXPLevels ==
    [][\A t \in useChessGame.timers \ useChessGame'.timers :
          t.kind = "awardXP" =>
              \A sq \in Squares :
                  LET piece == useChessGame.board[sq]
                      after == useChessGame'.board[sq]
                  IN  IF piece # NoPiece /\ piece.id = t.pieceId
                      THEN /\ after.xp >= 0
                           /\ after.xp < 50 + 50 * (after.level - 1)
                           /\ after.level >= piece.level
                           /\ after.level - piece.level
                                 = after.unspentPoints - piece.unspentPoints
                           /\ ThresholdsCrossed(piece.level, after.level) + after.xp
                                 = piece.xp + t.amount
                           /\ after = [piece EXCEPT !.xp = after.xp,
                                                    !.level = after.level,
                                                    !.unspentPoints = after.unspentPoints]
                      ELSE after = piece]_vars

\* C30 witness: one of the two awards has run and the knight, which started at
\* level 2 at most, is at level 4: one award crossed two thresholds or more
C30_Witness ==
    /\ \E t \in useChessGame.timers : t.kind = "awardXP"
    /\ \E sq \in Squares :
          /\ useChessGame.board[sq].id = PieceId(Pos(7, 1))
          /\ useChessGame.board[sq].level = 4
          /\ useChessGame.board[sq].unspentPoints = 3
          /\ useChessGame.board[sq].xp = 59

\* the side has a legal move: a move of one of its pieces that does not leave
\* its own king in check
HasLegalMove(board, color) ==
    \E sq \in PiecesOf(board, color) :
        \E move \in getValidMoves(board, sq) :
            ~isInCheck([board EXCEPT ![move] = board[sq], ![sq] = NoPiece], color)

\* C31 (as claimed): on the board of the game, for each side, isCheckmate
\* holds exactly when the side is in check and no move of its pieces leads to
\* a board where it is not in check, and isStalemate holds exactly when the
\* side is not in check and has no legal move.
C31_MateAndStalemate ==
    \A color \in Colors :
        /\ isCheckmate(useChessGame.board, color)
              <=> (isInCheck(useChessGame.board, color)
                      /\ ~HasLegalMove(useChessGame.board, color))
        /\ isStalemate(useChessGame.board, color)
              <=> (~isInCheck(useChessGame.board, color)
                      /\ ~HasLegalMove(useChessGame.board, color))

\* C32 (as claimed): the notifications of the accepted moves of a room go out
\* in increasing moveNumber order: when a move is announced, no accepted move
\* of the same room with a smaller number is still waiting for its storage
\* calls, to be announced after it.
C32_MovesAnnouncedInOrder ==
    [][MoveAnnounced =>
          \A t \in pending \cap pending' :
              (/\ t.kind = "move" /\ t.code = last'.code
               /\ \E done \in pending \ pending' :
                     done.kind = "move" /\ done.serial = t.serial)
                  => t.moveNumber > last'.moveNumber]_vars

\* the live rooms that reference connection c in a slot
RoomsOf(c) ==
    {k \in Codes : Has(k) /\ (gameRooms[k].white = c \/ gameRooms[k].black = c)}

\* C33 (as claimed): each connection holds at most one slot over all live
\* rooms: it is never both white and black of a room, never in a slot of two
\* rooms, and the roomId bound to it names the only room that references it.
C33_OneSlotPerConnection ==
    \A c \in Conns :
        /\ \A k \in Codes :
              Has(k) => ~(gameRooms[k].white = c /\ gameRooms[k].black = c)
        /\ Cardinality(RoomsOf(c)) <= 1
        /\ playerSockets[c].present => RoomsOf(c) \subseteq {playerSockets[c].roomId}

\* the slots of every room fit its status
SlotsMatchStatus ==
    \A k \in Codes :
        /\ gameRooms[k].status = "waiting"
              => gameRooms[k].white # NoConn /\ gameRooms[k].black = NoConn
        /\ gameRooms[k].status = "playing"
              => gameRooms[k].white # NoConn /\ gameRooms[k].black # NoConn

\* C34: after every step (no room exists before the first) a room in status
\* waiting has its white slot filled and its black slot empty, and a room in
\* status playing has both slots filled; and no join_room is rejected with
\* 'Room is full' (the status check before it fails first).
C34_SlotsMatchStatus ==
    [][/\ SlotsMatchStatus'
       /\ Handled("join_room") => last'.error # "Room is full"]_vars

\* C34 witness: a join_room of a room that is playing, with both slots
\* filled by two connections, was rejected by the status check
C34_Witness ==
    /\ last.kind = "join_room"
    /\ last.error = "Room is not available"
    /\ Has(last.code)
    /\ gameRooms[last.code].status = "playing"
    /\ gameRooms[last.code].white # NoConn
    /\ gameRooms[last.code].black # NoConn
    /\ gameRooms[last.code].black # gameRooms[last.code].white
    /\ last.conn \notin {gameRooms[last.code].white, gameRooms[last.code].black}

\* the step ran the callback of a delayed removal, or the continuation of
\* one: the timers and the abandon task that left pending
RemovalsRun == {t \in pending \ pending' : t.kind \in {"endTimer", "graceTimer", "abandon"}}

\* C35 (as claimed): a delayed removal set for a room never removes, or marks
\* as abandoned, a different room that was created later under the same code:
\* when it runs and the code names another room object than the one it was
\* set for, that room stays as it is and no abandon call is started for it.
C35_RemovalSparesLaterRoom ==
    [][\A t \in RemovalsRun :
          (Has(t.code) /\ gameRooms[t.code].serial # t.serial)
              => /\ gameRooms'[t.code] = gameRooms[t.code]
                 /\ ~\E a \in pending' \ pending :
                        a.kind = "abandon" /\ a.code = t.code]_vars

\* the step started storage.updateGameStatus(gameId, 'abandoned') for the
\* room under code k
AbandonStarted(k) == \E a \in pending' \ pending : a.kind = "abandon" /\ a.code = k

\* C36: when the grace timer of a disconnect fires, it changes the registry
\* or starts marking a game abandoned only if its code names a room with
\* status playing, and then for that room only; while the room is finished
\* (game_end got there first) the timer removes nothing and marks nothing.
C36_GraceTimerOnlyWhilePlaying ==
    [][Handled("grace_timer") =>
          /\ (gameRooms' # gameRooms \/ \E k \in Codes : AbandonStarted(k))
                => /\ Has(last'.code)
                   /\ gameRooms[last'.code].status = "playing"
                   /\ \A k \in Codes \ {last'.code} :
                         gameRooms'[k] = gameRooms[k] /\ ~AbandonStarted(k)
          /\ \A a \in pending' \ pending :
                /\ a.kind = "abandon"
                /\ Live(a.code, a.serial)
                /\ gameRooms[a.code].gameId # NoGame
          /\ (Has(last'.code) /\ gameRooms[last'.code].status = "finished")
                => gameRooms' = gameRooms /\ ~AbandonStarted(last'.code)]_vars

\* C36 witness: the grace timer fired on a room that a game_end had finished
\* after the disconnect: the room, with its game record, is still there
C36_Witness ==
    /\ last.kind = "grace_timer"
    /\ Has(last.code)
    /\ gameRooms[last.code].status = "finished"
    /\ gameRooms[last.code].gameId # NoGame
    /\ LostParticipant(last.code)
    /\ \A t \in pending : t.kind # "abandon"

\* the step is a call of completeGame
Called == db'.now = db.now + 1

\* C37: completeGame called while the game is already completed resolves with
\* the game row as it is and writes nothing: the games row and every user's
\* stats (gamesPlayed, gamesWon, gamesLost, totalPoints, level) stay as they
\* are, so a second completion in sequence adds nothing to the first.
C37_CompleteGameIdempotent ==
    [][\A g \in GameIds :
          (Called /\ db.games[g].present /\ db.games[g].status = "completed")
              => /\ db'.games = db.games
                 /\ db'.userStats = db.userStats
                 /\ db'.returned.ok => db'.returned.game = db.games[g]]_vars

\* C37 witness: the game between users 1 and 2, neither with a stats row,
\* was completed by the first call and completeGame was called on it again:
\* each player has one game played
C37_Witness ==
    /\ db.now = 2
    /\ db.games[1].status = "completed"
    /\ db.games[1].completedAt = 1
    /\ db.games[1].player2Id = 2
    /\ db.returned = Resolved(db.games[1])
    /\ db.userStats[1].gamesPlayed = 1
    /\ db.userStats[2].gamesPlayed = 1
    /\ db.userStats[1].gamesWon + db.userStats[2].gamesWon = 1

\* C38: reconnectAttempts never exceeds maxReconnectAttempts; a retry timer
\* that fires while the status is not disconnected opens no socket and
\* changes nothing else; a successful connect sets the count to 0; and if
\* from some point on no attempt connects, the client eventually stops
\* scheduling retries: no retry timer is left and none is set any more.
C38_ReconnectBounded ==
    /\ [](useMultiplayer.reconnectAttempts <= maxReconnectAttempts)
    /\ [][/\ (/\ useMultiplayer'.timers = useMultiplayer.timers - 1
              /\ useMultiplayer.connectionStatus # "disconnected")
                => useMultiplayer' = [useMultiplayer EXCEPT !.timers = @ - 1]
          /\ (useMultiplayer.socket = "opening" /\ useMultiplayer'.socket = "open")
                => /\ useMultiplayer'.reconnectAttempts = 0
                   /\ useMultiplayer'.connectionStatus = "connected"]_vars
    /\ \/ []<>(useMultiplayer.connectionStatus = "connected")
       \/ <>[](useMultiplayer.timers = 0 /\ useMultiplayer.socket # "opening")

\* C38 witness: after maxReconnectAttempts retries the last attempt failed
\* too and the client gave up: disconnected, no timer left
C38_Witness ==
    /\ useMultiplayer.reconnectAttempts = maxReconnectAttempts
    /\ useMultiplayer.connectionStatus = "disconnected"
    /\ useMultiplayer.socket = "failed"
    /\ useMultiplayer.timers = 0

====
